---- MODULE Spec2Model ----
(***************************************************************************)
(* Orchestration and storage core of the contract collector:               *)
(*   collector/core/schemas.py    RawRecord, CanonicalRecord (identity)    *)
(*   collector/storage/mongo.py   MongoStore (raw + canonical upserts)     *)
(*   collector/orchestrator.py    Orchestrator, CollectorMetrics           *)
(*   collector/adapters/*.py      the source capability (extract)          *)
(*                                                                         *)
(* Every `await` of the Python code is a point where the event loop may    *)
(* run another task, so every action below is the code between two awaits. *)
(***************************************************************************)
EXTENDS Integers, Sequences, FiniteSets, TLC

\* Python's None where a document or record is expected, and where a string is.
None == [ none |-> TRUE ]

NoneStr == "None"

(***************************************************************************)
(* Bounds of the model.                                                    *)
(***************************************************************************)
\* Store calls issued by the callers of SpecStore / SpecSeq.
MaxCalls == 3
\* Largest settings.max_concurrency tried (the setting is >= 1).
MaxConcurrencyCfg == 2
\* Largest settings.max_retries tried (the setting is >= 0).
MaxRetriesCfg == 2
\* Number of run() calls made on one Orchestrator.
MaxBatches == 2
\* Longest listing handed to an adapter's extract on its own.
MaxRows == 5
\* register_adapter calls made on the registry.
MaxRegistrations == 3
\* Records the runs of the throttled loop have to persist between them.
MaxRecords == 10
\* Ticks of the event loop's time counted from a domain's first record on.
MaxClock == 10
\* Largest settings.max_retries tried on _navigate_with_retry on its own.
MaxAttempts == 6
\* upsert_canonical calls made by (source_name, source_id) pair.
MaxKeyed == 3

(***************************************************************************)
(* Record identity model (core/schemas.py).                                *)
(***************************************************************************)
\* Keys an adapter puts into `extracted`, in Python's string order.
KeyOrder == <<"agency", "office", "title">>

KeyRank(k) == CHOOSE i \in 1..Len(KeyOrder) : KeyOrder[i] = k

\* `extracted` is a dict: a sequence of <<key, value>> items in insertion
\* order, keys distinct.
Payloads ==
    { << <<"title", "Road Repair">> >>,
      << <<"title", "Bridge">> >>,
      << <<"title", "Bridge">>, <<"agency", "DOT">> >>,
      << <<"agency", "DOT">>, <<"title", "Bridge">> >> }

\* The data a dict holds, whatever the insertion order.
Items(e) == { e[i] : i \in 1..Len(e) }

\* sorted(extracted.items()): the items by ascending key.
SortedItems(e) ==
    [ i \in 1..Len(e) |->
        CHOOSE it \in Items(e) :
            Cardinality({ o \in Items(e) : KeyRank(o[1]) < KeyRank(it[1]) }) = i - 1 ]

\* hashlib.sha256(payload).hexdigest(): a digest, distinct for distinct input.
Sha256(payload) == <<"sha256", payload>>

\* The default of content_hash and what raw_to_canonical gives as record_id:
\* the str without characters, which a validator finds not set.
EmptyStr == << >>

\* A mis-step: digest of the items in insertion order.
ContentHashUnsorted(extracted) == Sha256(extracted)

\* RawRecord.compute_content_hash, the derived value.
ContentHash(extracted) == Sha256(SortedItems(extracted))

\* RawRecord(...) after its model validator ran; content_hash = "" is the
\* field's default.
RawRecord(source_id, source_name, fetched_at, extracted, content_hash) ==
    [ source_id    |-> source_id,
      source_name  |-> source_name,
      fetched_at   |-> fetched_at,
      extracted    |-> extracted,
      content_hash |-> IF content_hash = EmptyStr THEN ContentHash(extracted)
                       ELSE content_hash ]

\* CanonicalRecord.compute_record_id, the derived value.
RecordId(source_name, source_id) == Sha256(source_name \o ":" \o source_id)

\* A mis-step: the title digested into the record's id.
CanonicalRecordKeyedByTitle(record_id, source_name, source_id, title, content_hash, t) ==
    [ record_id    |-> IF record_id = EmptyStr
                       THEN Sha256(source_name \o ":" \o source_id \o ":" \o title)
                       ELSE record_id,
      source_name  |-> source_name,
      source_id    |-> source_id,
      title        |-> title,
      content_hash |-> content_hash,
      version      |-> 1,
      created_at   |-> t,
      updated_at   |-> t ]

\* CanonicalRecord(...) after its model validator ran; version defaults to 1,
\* created_at and updated_at to the time of construction.
CanonicalRecord(record_id, source_name, source_id, title, content_hash, t) ==
    [ record_id    |-> IF record_id = EmptyStr
                       THEN RecordId(source_name, source_id)
                       ELSE record_id,
      source_name  |-> source_name,
      source_id    |-> source_id,
      title        |-> title,
      content_hash |-> content_hash,
      version      |-> 1,
      created_at   |-> t,
      updated_at   |-> t ]

\* ext.get("title", "")
GetTitle(extracted) ==
    IF \E it \in Items(extracted) : it[1] = "title"
    THEN (CHOOSE it \in Items(extracted) : it[1] = "title")[2]
    ELSE ""

\* ml/normalizer.py raw_to_canonical: identity and content_hash are copied.
raw_to_canonical(rawrec, t) ==
    CanonicalRecord(EmptyStr, rawrec.source_name, rawrec.source_id,
                    GetTitle(rawrec.extracted), rawrec.content_hash, t)

(***************************************************************************)
(* Collections of the store (pymongo primitives used by MongoStore).       *)
(***************************************************************************)
Matches(doc, filt) ==
    \A f \in DOMAIN filt : f \in DOMAIN doc /\ doc[f] = filt[f]

\* collection.find_one(filt): a matching document, or None.
FindOne(coll, filt) ==
    IF \E d \in coll : Matches(d, filt)
    THEN CHOOSE d \in coll : Matches(d, filt)
    ELSE None

\* {"$set": fields} applied to a document.
SetFields(doc, fields) ==
    [ f \in DOMAIN doc \cup DOMAIN fields |->
        IF f \in DOMAIN fields THEN fields[f] ELSE doc[f] ]

\* A mis-step: an insert where the upsert should be.
UpdateOneInsertsAlways(coll, filt, fields) == coll \cup {SetFields(filt, fields)}

\* collection.update_one(filt, {"$set": fields}, upsert=True): one server
\* operation; it modifies one matching document, or inserts filt + fields.
UpdateOne(coll, filt, fields) ==
    IF \E d \in coll : Matches(d, filt)
    THEN LET d == CHOOSE x \in coll : Matches(x, filt)
         IN  (coll \ {d}) \cup {SetFields(d, fields)}
    ELSE coll \cup {SetFields(filt, fields)}

RawFilter(rec) == [ source_name |-> rec.source_name, source_id |-> rec.source_id ]

CanonicalFilter(rec) == [ record_id |-> rec.record_id ]

\* A mis-step: the hash comparison dropped from the skip test.
UnchangedAlways(existing, rec) == existing # None

\* `existing and existing.get("content_hash") == record.content_hash`
Unchanged(existing, rec) ==
    existing # None /\ existing.content_hash = rec.content_hash

\* A mis-step: the version taken from the record instead of the store.
NewVersionFromRecord(existing, rec) == rec.version

\* `(existing["version"] + 1) if existing else 1`
NewVersion(existing, rec) ==
    IF existing # None THEN existing.version + 1 ELSE 1

(***************************************************************************)
(* State.                                                                  *)
(***************************************************************************)
VARIABLES
    raw,          \* MongoStore.raw_collection: a set of documents
    canonical,    \* MongoStore.canonical_collection: a set of documents
    now,          \* datetime.utcnow() of the store callers, a logical clock
    call,         \* per store caller: the upsert call it is executing
    prev,         \* per store caller: its previous, completed call
    ncalls,       \* store calls issued so far
    cwrites       \* per record_id: upsert_canonical calls that returned True

VARIABLES
    adapter_names,    \* Orchestrator.adapter_names: the names run() collects
    settings,         \* core/config.py Settings: max_concurrency, max_retries,
                      \* rate_limit_per_domain (in tenths of a request a second)
    run_pc,           \* Orchestrator.run(): "idle", "gather", "returned", "raised"
    batch,            \* run() calls made so far
    sem_value,        \* self._semaphore: the permits left
    domain_limiters,  \* self._domain_limiters: the domains that have a limiter
    metrics,          \* self.metrics: CollectorMetrics
    task,             \* per adapter name: the _run_adapter task of this batch
    upserts           \* upsert_raw calls of this batch, by what they returned

\* The parts of the program that are checked on their own: one source's
\* extract generator, and the orchestrator's limiters with the runs using them.
VARIABLES
    gen,          \* an adapter's extract(): its listing, checkpoint and position
    limiters,     \* Orchestrator._domain_limiters: per domain, its AsyncLimiter
    bucket,       \* the AsyncLimiter objects constructed so far: their levels
    runner,       \* per run of the throttled loop (118-126): where it is
    persisted,    \* per domain: records persisted, and the time that took
    built,        \* RawRecord constructions: the arguments and the instances
    conn,         \* MongoStore.connect(): how far it is, _db, the unique indexes
    registry,     \* adapters/registry.py ADAPTER_REGISTRY: name -> class
    registered,   \* the register_adapter calls made, in order
    looked,       \* the last get_adapter call: its argument and its outcome
    retrying,     \* one _navigate_with_retry call: its attempts and its waits
    keyed         \* upsert_canonical calls by (source_name, source_id) pair

\* The unit variables the extract and limiter units leave alone.
laterUnits == <<built, conn, registry, registered, looked, retrying, keyed>>

unitVars == <<gen, limiters, bucket, runner, persisted, built, conn, registry,
              registered, looked, retrying, keyed>>

orchVars == <<adapter_names, settings, run_pc, batch, sem_value,
              domain_limiters, metrics, task, upserts>>

vars == <<raw, canonical, now, call, prev, ncalls, cwrites,
          adapter_names, settings, run_pc, batch, sem_value, domain_limiters,
          metrics, task, upserts, gen, limiters, bucket, runner, persisted,
          built, conn, registry, registered, looked, retrying, keyed>>

storeVars == <<raw, canonical, now, call, prev, ncalls, cwrites>>

\* Tasks that call the store directly (cli.py `process`, api, tests).
Clients == {"c1", "c2"}

\* (source_name, source_id) pairs the store callers use.
StoreKeys == { <<"dummy", "X1">>, <<"dummy", "X2">>, <<"sam_gov", "X1">> }

\* The source names get_latest_source_id is asked about.
StoreSources == { k[1] : k \in StoreKeys }

StoreRecordIds == { RecordId(k[1], k[2]) : k \in StoreKeys }

IdleCall ==
    [ pc |-> "idle", op |-> NoneStr, rec |-> None, existing |-> None,
      before |-> None, doc |-> None, result |-> FALSE, overlap |-> FALSE,
      source |-> NoneStr, latest |-> NoneStr ]

\* find_one's projection: only the named fields come back.
Project(doc, fields) ==
    IF doc = None THEN None ELSE [ f \in fields \cap DOMAIN doc |-> doc[f] ]

InFlight(c) == call[c].pc \in {"find", "write"}

\* The frames after caller c begins the call `frame`: frames in flight at that
\* moment are marked as overlapping it, and it as overlapping them.
Begun(c, frame) ==
    [ d \in Clients |->
        IF d = c
        THEN [ frame EXCEPT !.overlap = \E o \in Clients \ {c} : InFlight(o) ]
        ELSE IF InFlight(d) THEN [ call[d] EXCEPT !.overlap = TRUE ] ELSE call[d] ]

StoreInit ==
    /\ raw = {}
    /\ canonical = {}
    /\ now = 1
    /\ call = [ c \in Clients |-> IdleCall ]
    /\ prev = [ c \in Clients |-> IdleCall ]
    /\ ncalls = 0
    /\ cwrites = [ id \in StoreRecordIds |-> 0 ]

\* A mis-step: the sort ascending, the oldest document first.
LatestSourceIdsOldestFirst(coll, source_name) ==
    LET docs == { d \in coll : d.source_name = source_name }
    IN  IF docs = {} THEN {NoneStr}
        ELSE { d.source_id : d \in { x \in docs :
                   \A y \in docs : x.fetched_at <= y.fetched_at } }

\* MongoStore.get_latest_source_id: the source_id of a document of that source
\* with the greatest fetched_at (find_one with sort fetched_at descending);
\* the set holds every answer the store may give, NoneStr when there is none.
LatestSourceIds(coll, source_name) ==
    LET docs == { d \in coll : d.source_name = source_name }
    IN  IF docs = {} THEN {NoneStr}
        ELSE { d.source_id : d \in { x \in docs :
                   \A y \in docs : y.fetched_at <= x.fetched_at } }

\* MongoStore.raw_collection / canonical_collection (66-76):
\* `assert self._db is not None`, the one test an upsert makes of the store.
HasDb(c) == c.db

(***************************************************************************)
(* MongoStore.upsert_raw (storage/mongo.py 80-93), called directly.        *)
(***************************************************************************)
\* A caller builds a RawRecord and calls upsert_raw(record).
BeginUpsertRaw(c) ==
    /\ call[c].pc \in {"idle", "returned"}
    /\ ncalls < MaxCalls
    /\ \E k \in StoreKeys, e \in Payloads :
          call' = Begun(c, [ IdleCall EXCEPT
                                !.pc = "find", !.op = "upsert_raw",
                                !.rec = RawRecord(k[2], k[1], now, e, EmptyStr) ])
    /\ prev' = [ prev EXCEPT ![c] = call[c] ]
    /\ now' = now + 1
    /\ ncalls' = ncalls + 1
    /\ UNCHANGED <<raw, canonical, cwrites>>
    /\ UNCHANGED orchVars
    /\ UNCHANGED unitVars

\* `existing = await find_one(...)`, the hash test, `return False`.
FindRaw(c) ==
    /\ call[c].pc = "find"
    /\ call[c].op = "upsert_raw"
    /\ HasDb(conn)
    /\ LET found    == FindOne(raw, RawFilter(call[c].rec))
           existing == Project(found, {"content_hash"})
       IN  call' = [ call EXCEPT ![c] =
                       IF Unchanged(existing, call[c].rec)
                       THEN [ @ EXCEPT !.pc = "returned", !.existing = existing,
                                       !.before = found, !.result = FALSE ]
                       ELSE [ @ EXCEPT !.pc = "write", !.existing = existing,
                                       !.before = found ] ]
    /\ UNCHANGED <<raw, canonical, now, prev, ncalls, cwrites>>
    /\ UNCHANGED orchVars
    /\ UNCHANGED unitVars

\* `await update_one(filt, {"$set": record.model_dump()}, upsert=True)`,
\* `return True`.
WriteRaw(c) ==
    /\ call[c].pc = "write"
    /\ call[c].op = "upsert_raw"
    /\ raw' = UpdateOne(raw, RawFilter(call[c].rec), call[c].rec)
    /\ call' = [ call EXCEPT ![c] = [ @ EXCEPT !.pc = "returned", !.result = TRUE ] ]
    /\ UNCHANGED <<canonical, now, prev, ncalls, cwrites>>
    /\ UNCHANGED orchVars
    /\ UNCHANGED unitVars

(***************************************************************************)
(* MongoStore.upsert_canonical (storage/mongo.py 103-118).                 *)
(***************************************************************************)
\* The pipeline normalizes a raw record and calls upsert_canonical(canon).
BeginUpsertCanonical(c) ==
    /\ call[c].pc \in {"idle", "returned"}
    /\ ncalls < MaxCalls
    /\ \E k \in StoreKeys, e \in Payloads :
          call' = Begun(c, [ IdleCall EXCEPT
                                !.pc = "find", !.op = "upsert_canonical",
                                !.rec = raw_to_canonical(RawRecord(k[2], k[1], now, e, EmptyStr),
                                                         now) ])
    /\ prev' = [ prev EXCEPT ![c] = call[c] ]
    /\ now' = now + 1
    /\ ncalls' = ncalls + 1
    /\ UNCHANGED <<raw, canonical, cwrites>>
    /\ UNCHANGED orchVars
    /\ UNCHANGED unitVars

\* `existing = await find_one(...)`, the hash test, `return False`; else the
\* document to write is built (version, updated_at) before the next await.
FindCanonical(c) ==
    /\ call[c].pc = "find"
    /\ call[c].op = "upsert_canonical"
    /\ HasDb(conn)
    /\ LET found    == FindOne(canonical, CanonicalFilter(call[c].rec))
           existing == Project(found, {"content_hash", "version"})
       IN  IF Unchanged(existing, call[c].rec)
           THEN call' = [ call EXCEPT ![c] =
                            [ @ EXCEPT !.pc = "returned", !.existing = existing,
                                       !.before = found, !.result = FALSE ] ]
           ELSE call' = [ call EXCEPT ![c] =
                            [ @ EXCEPT
                                   !.pc = "write", !.existing = existing,
                                   !.before = found,
                                   !.doc = [ call[c].rec EXCEPT
                                               !.version = NewVersion(existing, call[c].rec),
                                               !.updated_at = now ] ] ]
    /\ UNCHANGED <<raw, canonical, now, prev, ncalls, cwrites>>
    /\ UNCHANGED orchVars
    /\ UNCHANGED unitVars

\* `await update_one(filt, {"$set": doc}, upsert=True)`, `return True`.
WriteCanonical(c) ==
    /\ call[c].pc = "write"
    /\ call[c].op = "upsert_canonical"
    /\ canonical' = UpdateOne(canonical, CanonicalFilter(call[c].rec), call[c].doc)
    /\ call' = [ call EXCEPT ![c] = [ @ EXCEPT !.pc = "returned", !.result = TRUE ] ]
    /\ cwrites' = [ cwrites EXCEPT ![call[c].rec.record_id] = @ + 1 ]
    /\ UNCHANGED <<raw, now, prev, ncalls>>
    /\ UNCHANGED orchVars
    /\ UNCHANGED unitVars

(***************************************************************************)
(* MongoStore.get_latest_source_id (storage/mongo.py 136-143).             *)
(***************************************************************************)
\* One find_one with a sort: the call is answered in one step of the server.
GetLatestSourceId(c) ==
    /\ call[c].pc \in {"idle", "returned"}
    /\ \E s \in StoreSources :
          \E id \in LatestSourceIds(raw, s) :
              call' = [ call EXCEPT ![c] =
                          [ IdleCall EXCEPT
                              !.pc = "returned", !.op = "get_latest_source_id",
                              !.source = s, !.latest = id ] ]
    /\ prev' = [ prev EXCEPT ![c] = call[c] ]
    /\ UNCHANGED <<raw, canonical, now, ncalls, cwrites>>
    /\ UNCHANGED orchVars
    /\ UNCHANGED unitVars

(***************************************************************************)
(* Orchestrator (orchestrator.py): configuration and sources.              *)
(***************************************************************************)
\* adapters/registry.py ADAPTER_REGISTRY after the adapter modules (and the
\* test adapter) registered themselves.
ADAPTER_REGISTRY == {"nyc_procurement", "sam_gov", "dummy"}

\* Orchestrator.adapter_names by default: `list(ADAPTER_REGISTRY.keys())`.
AdapterNames == ADAPTER_REGISTRY

\* A name given with `collect -a` that no adapter is registered under.
UnknownNames == {"nonexistent_adapter_xyz"}

\* The names an Orchestrator may be given.
RunNames == AdapterNames \cup UnknownNames

\* settings.rate_limit_per_domain, the default.
RateLimitPerDomain == 2

\* settings.rate_limit_per_domain values tried, in tenths: 0.5 and the default.
Rates == {5, 10 * RateLimitPerDomain}

\* What each adapter's extract has to offer, newest first: the source ids of
\* the rows. sam_gov offers nothing: its extract returns at once without an
\* API key, and Settings declares no sam_gov_api_key.
Feed(name) ==
    CASE name = "nyc_procurement" -> <<"n2", "n1">>
      [] name = "sam_gov"         -> << >>
      [] name = "dummy"           -> <<"1">>

MaxFeedLen == CHOOSE l \in { Len(Feed(n)) : n \in ADAPTER_REGISTRY } :
                  \A n \in ADAPTER_REGISTRY : Len(Feed(n)) <= l

\* datetime.utcnow() when a run builds the record of row `cursor` of its
\* listing in the b-th batch: later batches and later rows are later times.
\* fetched_at is only ever compared among the records of one source.
UtcNow(b, cursor) == b * (MaxFeedLen + 1) + cursor

\* The `extracted` mapping an adapter builds from a row.
RowPayload(name, source_id) == << <<"title", "Road Repair">> >>

\* adapter.meta.requires_browser (AdapterMeta's default is True).
RequiresBrowser(name) ==
    CASE name = "nyc_procurement" -> FALSE
      [] name = "sam_gov"         -> FALSE
      [] name = "dummy"           -> TRUE

\* adapter.meta.base_url
BaseUrl(name) ==
    CASE name = "nyc_procurement" -> <<"https:", "", "data.cityofnewyork.us">>
      [] name = "sam_gov"         -> <<"https:", "", "api.sam.gov">>
      [] name = "dummy"           -> <<"https:", "", "example.com">>

\* `adapter.meta.base_url.split("/")[2]` (Python indexes from 0).
Domain(name) == BaseUrl(name)[3]

\* CollectorMetrics.__init__
CollectorMetrics == [ items_collected |-> 0, items_skipped |-> 0, failures |-> 0 ]

\* A task gather() created and the loop has not run yet.
PendingTask ==
    [ pc |-> "pending", checkpoint |-> NoneStr, session |-> "none",
      page |-> NoneStr, attempts |-> 0, cursor |-> 1, record |-> None,
      fault |-> "none", did |-> {}, acquires |-> 0, tokens |-> 0 ]

\* No _run_adapter coroutine exists for the name.
NoTask == [ PendingTask EXCEPT !.pc = "none" ]

NoUpserts == [ written |-> 0, unchanged |-> 0 ]

\* Positions of _run_adapter at which the run holds its gate slot.
HoldingPcs ==
    {"checkpoint", "context", "navigate", "login", "extract", "limiter",
     "find", "update", "close"}

TerminalPcs == {"done", "failed"}

\* The state of the per-source run state machine a code position belongs to.
RunState(pc) ==
    CASE pc = "pending"                                -> "PENDING"
      [] pc = "acquire"                                -> "ACQUIRING_SLOT"
      [] pc \in {"checkpoint", "context", "navigate"}  -> "NAVIGATING"
      [] pc = "login"                                  -> "AUTHENTICATING"
      [] pc \in {"extract", "limiter", "find", "update", "close"} -> "EXTRACTING"
      [] pc = "done"                                   -> "DONE"
      [] pc = "failed"                                 -> "FAILED"

\* A mis-step: one permit too many.
SemaphoreInitOffByOne(cfg) == cfg.max_concurrency + 1

\* `asyncio.Semaphore(settings.max_concurrency)`
SemaphoreInit(cfg) == cfg.max_concurrency

\* A mis-step: one attempt more than stop_after_attempt(n) allows.
StopAfterAttemptStrict(attempt_number, max_attempt_number) ==
    attempt_number > max_attempt_number

\* tenacity stop_after_attempt(n): stop once attempt_number >= n.
StopAfterAttempt(attempt_number, max_attempt_number) ==
    attempt_number >= max_attempt_number

\* `if self.checkpoint and source_id == self.checkpoint`
CheckpointReached(checkpoint, source_id) ==
    checkpoint # NoneStr /\ checkpoint # "" /\ source_id = checkpoint

\* A mis-step: every upsert counted as collected.
CountAllCollected(m, inserted) == [ m EXCEPT !.items_collected = @ + 1 ]

\* `if inserted: items_collected += 1 else: items_skipped += 1`
Count(m, inserted) ==
    IF inserted THEN [ m EXCEPT !.items_collected = @ + 1 ]
    ELSE [ m EXCEPT !.items_skipped = @ + 1 ]

\* A mis-step: the first finished task ends the wait.
GatherDoneFirstCompleted(t) == \E n \in adapter_names : t[n].pc \in TerminalPcs

\* `await asyncio.gather(*tasks, return_exceptions=True)` returns once every
\* task has finished, whatever it returned or raised.
GatherDone(t) == \A n \in adapter_names : t[n].pc \in TerminalPcs

(***************************************************************************)
(* An adapter's extract() on its own (adapters/nyc_procurement.py 38-92,   *)
(* adapters/sam_gov.py 40-102): an async generator over the listing the    *)
(* remote API returns, newest first.                                       *)
(***************************************************************************)
\* The adapters cli.py `collect` imports, and so registers.
CliAdapters == {"nyc_procurement", "sam_gov"}

\* The extract of the registered adapters ends at the checkpoint (nyc 64-67,
\* sam_gov 74-77); the test adapter's yields its record whatever it is.
StopsAtCheckpoint(name, checkpoint, source_id) ==
    name \in CliAdapters /\ CheckpointReached(checkpoint, source_id)

\* The ids a row of a listing may carry; "" is a row without one
\* (`row.get("request_id", "") or row.get("pin", "")`, `opp.get("noticeId", "")`).
ListingIds == {"d1", "d2", "d3", "d4", "d5"}

RowIds == ListingIds \cup {""}

Listings == UNION { [ 1..k -> RowIds ] : k \in 0..MaxRows }

\* `adapter_cls(checkpoint=checkpoint)`: a stored source_id, or None.
Checkpoints == ListingIds \cup {NoneStr}

\* `getattr(settings, "sam_gov_api_key", "") or ""`: Settings declares no
\* field of that name, so the default is what comes back.
SamGovApiKey == ""

\* No generator has been created.
NoGen ==
    [ adapter |-> NoneStr, rows |-> << >>, checkpoint |-> NoneStr,
      pos |-> 1, yielded |-> << >>, pc |-> "none" ]

\* The generator resumed with row `pos` next: the rows are gone through until
\* one is yielded or the generator returns. nyc skips a row without an id
\* (61-62); both stop at the checkpoint (64-67, 74-77) and at the end.
RECURSIVE Advance(_, _, _, _)
Advance(adapter, rows, checkpoint, pos) ==
    IF pos > Len(rows)
    THEN [ kind |-> "return", pos |-> pos ]
    ELSE IF adapter = "nyc_procurement" /\ rows[pos] = ""
    THEN Advance(adapter, rows, checkpoint, pos + 1)
    ELSE IF CheckpointReached(checkpoint, rows[pos])
    THEN [ kind |-> "return", pos |-> pos ]
    ELSE [ kind |-> "yield", pos |-> pos ]

\* What a resumed generator does next; sam_gov returns at once without a key
\* (42-46).
Resume(g) ==
    IF g.adapter = "sam_gov" /\ SamGovApiKey = ""
    THEN [ kind |-> "return", pos |-> g.pos ]
    ELSE Advance(g.adapter, g.rows, g.checkpoint, g.pos)

\* `async for record in adapter.extract(page)`: the next record is yielded.
GenYield ==
    /\ gen.pc \in {"created", "suspended"}
    /\ Resume(gen).kind = "yield"
    /\ gen' = [ gen EXCEPT !.pc = "suspended",
                           !.yielded = Append(@, gen.rows[Resume(gen).pos]),
                           !.pos = Resume(gen).pos + 1 ]
    /\ UNCHANGED <<limiters, bucket, runner, persisted>>
    /\ UNCHANGED storeVars
    /\ UNCHANGED orchVars
    /\ UNCHANGED laterUnits

\* The generator returns: StopAsyncIteration ends the `async for`.
GenReturn ==
    /\ gen.pc \in {"created", "suspended"}
    /\ Resume(gen).kind = "return"
    /\ gen' = [ gen EXCEPT !.pc = "returned", !.pos = Resume(gen).pos ]
    /\ UNCHANGED <<limiters, bucket, runner, persisted>>
    /\ UNCHANGED storeVars
    /\ UNCHANGED orchVars
    /\ UNCHANGED laterUnits

(***************************************************************************)
(* The per-domain limiters (orchestrator.py 60, 63-68) and the throttled   *)
(* loop of the runs (118-126), with the event loop's time.                 *)
(* AsyncLimiter(max_rate, time_period = 1.0) is a leaky bucket of capacity *)
(* max_rate that leaks max_rate per second; a tick of the clock is the     *)
(* time one token takes to leak, 1 / max_rate seconds.                     *)
(***************************************************************************)
\* Invocations of _run_adapter; `collect -a X -a X` makes two of one adapter.
Runners == {"r1", "r2"}

\* How the records to persist are spread over the runs.
Shares ==
    { [ r1 |-> MaxRecords, r2 |-> 0 ],
      [ r1 |-> MaxRecords \div 2, r2 |-> MaxRecords - (MaxRecords \div 2) ] }

\* The domains of the registered adapters' base URLs.
LimDomains == { Domain(n) : n \in CliAdapters }

\* self._domain_limiters = {}: no domain has a limiter (0 stands for absent,
\* the limiters constructed are numbered from 1).
NoLimiters == [ d \in LimDomains |-> 0 ]

NoRunners ==
    [ r \in Runners |-> [ adapter |-> NoneStr, limiter |-> 0, pc |-> "none",
                          left |-> 0 ] ]

\* Per domain: the records persisted, and the ticks from the first of them
\* to the latest (time stands still for a domain with nothing left to persist).
NothingPersisted ==
    [ d \in LimDomains |-> [ count |-> 0, age |-> 0 ] ]

\* A mis-step: the lookup never finds the limiter of a domain.
HasLimiterNever(dict, domain) == FALSE

\* `domain in self._domain_limiters`
HasLimiter(dict, domain) == dict[domain] # 0

\* AsyncLimiter.has_capacity(amount): `self._level + amount <= self.max_rate`.
HasCapacity(level, amount) == level + amount <= RateLimitPerDomain

\* AsyncLimiter._leak over one tick.
Leak(level) == IF level > 0 THEN level - 1 ELSE 0

\* `extracted` mappings whose values are themselves mappings (JSON objects of
\* a row), each a sequence of <<key, value>> items in insertion order.
StructuredPayloads ==
    { << <<"office", << <<"city", "NYC">>, <<"code", "A1">> >> >> >>,
      << <<"office", << <<"code", "A1">>, <<"city", "NYC">> >> >> >>,
      << <<"office", << <<"city", "LA">>, <<"code", "A1">> >> >> >>,
      << <<"office", << <<"city", "NYC">> >> >> >>,
      << <<"agency", << <<"name", "DOT">> >> >>,
         <<"office", << <<"city", "NYC">>, <<"code", "A1">> >> >> >>,
      << <<"office", << <<"city", "NYC">>, <<"code", "A1">> >> >>,
         <<"agency", << <<"name", "DOT">> >> >> >> }

\* The two constructions compared.
Slots == {"r1", "r2"}

\* No RawRecord has been constructed, and none is going to be.
NothingBuilt ==
    [ sl \in Slots |-> [ extracted |-> << >>, rec |-> None ] ]

\* MongoStore() after __init__ (mongo.py 21-26): _client and _db are None and
\* nothing is known to be indexed.
NotConnected ==
    [ pc |-> "new", db |-> FALSE, raw_unique |-> FALSE,
      canonical_unique |-> FALSE ]

\* The store after `await store.connect()` returned (cli.py 36-37).
Connected ==
    [ pc |-> "connected", db |-> TRUE, raw_unique |-> TRUE,
      canonical_unique |-> TRUE ]

\* ADAPTER_REGISTRY = {} (registry.py 8), a function with no argument.
EmptyRegistry == << >>

\* get_adapter has not been called.
NoLookup == [ name |-> NoneStr, outcome |-> NoneStr ]

\* _navigate_with_retry is not being called on its own.
NotRetrying ==
    [ pc |-> "none", retry_backoff_base |-> 0, max_retries |-> 0,
      attempt_number |-> 0, waits |-> << >> ]

\* No upsert_canonical call has been made by pair.
NothingKeyed == [ canonical |-> {}, upserted |-> {}, calls |-> 0 ]

\* The parts checked on their own are not running.
UnitIdle ==
    /\ gen = NoGen
    /\ limiters = NoLimiters
    /\ bucket = << >>
    /\ runner = NoRunners
    /\ persisted = NothingPersisted
    /\ built = NothingBuilt
    /\ conn = Connected
    /\ registry = EmptyRegistry
    /\ registered = << >>
    /\ looked = NoLookup
    /\ retrying = NotRetrying
    /\ keyed = NothingKeyed

OrchInit ==
    /\ adapter_names = AdapterNames
    /\ settings \in [ max_concurrency : 1..MaxConcurrencyCfg,
                      max_retries : 0..MaxRetriesCfg,
                      rate_limit_per_domain : Rates ]
    /\ run_pc = "idle"
    /\ batch = 0
    /\ sem_value = SemaphoreInit(settings)
    /\ domain_limiters = {}
    /\ metrics = CollectorMetrics
    /\ task = [ n \in RunNames |-> NoTask ]
    /\ upserts = NoUpserts

Init == StoreInit /\ OrchInit /\ UnitIdle

\* The store and its direct callers, with an Orchestrator that is never run.
InitStore ==
    /\ StoreInit
    /\ OrchInit
    /\ UnitIdle
    /\ settings = [ max_concurrency |-> MaxConcurrencyCfg,
                    max_retries |-> MaxRetriesCfg,
                    rate_limit_per_domain |-> 10 * RateLimitPerDomain ]

(***************************************************************************)
(* Orchestrator.run and Orchestrator._run_adapter (orchestrator.py 72-133). *)
(***************************************************************************)
clientVars == <<canonical, now, call, prev, ncalls, cwrites>>

\* The coroutine of a run has finished: its locals are gone; what the run
\* did and the context it left behind stay on record, and so do the attempts
\* of a navigation that gave up.
Finished(tk, pc, kind) ==
    [ tk EXCEPT !.pc = pc, !.fault = kind, !.checkpoint = NoneStr,
                !.page = NoneStr, !.cursor = 1, !.record = None, !.tokens = 0,
                !.attempts = IF kind = "navigate" THEN @ ELSE 0 ]

\* asyncio.Semaphore.release, at the exit of `async with self._semaphore`.
ReleaseLost(v) == v

Release(v) == v + 1

\* A mis-step: a failing run takes the runs that are under way down with it.
FailedCancelsSiblings(t, n, kind) ==
    [ m \in DOMAIN t |->
        IF m = n THEN Finished(t[m], "failed", kind)
        ELSE IF t[m].pc \in HoldingPcs
             THEN Finished(t[m], "failed", "cancelled")
             ELSE t[m] ]

\* `except Exception:` of run n, entered by the error `kind`.
Failed(t, n, kind) == [ t EXCEPT ![n] = Finished(@, "failed", kind) ]

\* A mis-step: the error is swallowed where it occurs and the run goes on
\* with the next item.
RunFailsSwallowed(n, kind) ==
    /\ task' = [ task EXCEPT ![n].pc = "extract", ![n].record = None,
                             ![n].tokens = 0, ![n].fault = kind ]
    /\ UNCHANGED <<raw, domain_limiters, metrics, sem_value, upserts>>

\* A mis-step: the failing run takes back what it has written.
RunFailsRollsBack(n, kind) ==
    /\ task' = Failed(task, n, kind)
    /\ metrics' = [ metrics EXCEPT !.failures = @ + 1 ]
    /\ sem_value' = Release(sem_value)
    /\ raw' = { d \in raw : d.source_name # n }
    /\ UNCHANGED <<domain_limiters, upserts>>

\* A mis-step: the retry policy is around every call of the run, and the
\* call that raised is made again until the attempts are used up.
RunFailsRetried(n, kind) ==
    IF StopAfterAttempt(task[n].attempts + 1, settings.max_retries)
    THEN /\ task' = Failed(task, n, kind)
         /\ metrics' = [ metrics EXCEPT !.failures = @ + 1 ]
         /\ sem_value' = Release(sem_value)
         /\ UNCHANGED <<raw, domain_limiters, upserts>>
    ELSE /\ task' = [ task EXCEPT ![n].attempts = @ + 1 ]
         /\ UNCHANGED <<raw, domain_limiters, metrics, sem_value, upserts>>

\* The except clause (131-133) and the exit of the `async with`: the failure
\* is counted, nothing else of the run is undone, the slot is released.
RunFails(n, kind) ==
    /\ task' = Failed(task, n, kind)
    /\ metrics' = [ metrics EXCEPT !.failures = @ + 1 ]
    /\ sem_value' = Release(sem_value)
    /\ UNCHANGED <<raw, domain_limiters, upserts>>

\* run(), 74-83: fresh metrics, one task per adapter name handed to gather.
RunStart ==
    /\ run_pc \in {"idle", "returned"}
    /\ batch < MaxBatches
    /\ batch' = batch + 1
    /\ run_pc' = "gather"
    /\ metrics' = CollectorMetrics
    /\ task' = [ n \in RunNames |->
                   IF n \in adapter_names THEN PendingTask ELSE NoTask ]
    /\ upserts' = NoUpserts
    /\ UNCHANGED <<adapter_names, settings, sem_value, domain_limiters, raw>>
    /\ UNCHANGED clientVars
    /\ UNCHANGED unitVars

\* browser.close() closes the contexts that are still open.
BrowserClosed(t) ==
    [ n \in DOMAIN t |->
        IF t[n].session = "open" THEN [ t[n] EXCEPT !.session = "closed" ]
        ELSE t[n] ]

\* run(), 83-90: gather returns, the browser is closed (finally, 84-85), the
\* summary is what the metrics hold.
RunReturn ==
    /\ run_pc = "gather"
    /\ GatherDone(task)
    /\ run_pc' = "returned"
    /\ task' = BrowserClosed(task)
    /\ UNCHANGED <<adapter_names, settings, batch, sem_value,
                   domain_limiters, metrics, upserts, raw>>
    /\ UNCHANGED clientVars
    /\ UNCHANGED unitVars

\* A mis-step: the run goes on without waiting at the gate.
StartPastGate(n) ==
    /\ run_pc = "gather"
    /\ task[n].pc = "pending"
    /\ task' = [ task EXCEPT ![n].pc = "checkpoint" ]
    /\ UNCHANGED <<adapter_names, settings,
                   run_pc, batch, sem_value, domain_limiters, metrics,
                   upserts, raw>>
    /\ UNCHANGED clientVars
    /\ UNCHANGED unitVars

\* The loop runs the task up to `async with self._semaphore` (95).
Start(n) ==
    /\ run_pc = "gather"
    /\ task[n].pc = "pending"
    /\ task' = [ task EXCEPT ![n].pc = "acquire" ]
    /\ UNCHANGED <<adapter_names, settings,
                   run_pc, batch, sem_value, domain_limiters, metrics,
                   upserts, raw>>
    /\ UNCHANGED clientVars
    /\ UNCHANGED unitVars

\* A mis-step: the name is looked up only after the checkpoint was read.
AdmitThenLookUp(n) ==
    /\ task[n].pc = "acquire"
    /\ sem_value > 0
    /\ task' = [ task EXCEPT ![n].pc = "checkpoint", ![n].acquires = @ + 1 ]
    /\ sem_value' = sem_value - 1
    /\ UNCHANGED <<adapter_names, settings, run_pc, batch, domain_limiters,
                   metrics, upserts, raw>>
    /\ UNCHANGED clientVars
    /\ UNCHANGED unitVars

\* The semaphore admits the run (95); get_adapter (98) raises KeyError for a
\* name that is not registered; then get_latest_source_id is awaited.
Admit(n) ==
    /\ task[n].pc = "acquire"
    /\ sem_value > 0
    /\ IF n \in ADAPTER_REGISTRY
       THEN /\ task' = [ task EXCEPT ![n].pc = "checkpoint", ![n].acquires = @ + 1 ]
            /\ sem_value' = sem_value - 1
            /\ UNCHANGED metrics
       ELSE /\ task' = Failed([ task EXCEPT ![n].acquires = @ + 1 ], n, "get_adapter")
            /\ metrics' = [ metrics EXCEPT !.failures = @ + 1 ]
            /\ sem_value' = Release(sem_value - 1)
    /\ UNCHANGED <<adapter_names, settings, run_pc, batch, domain_limiters,
                   upserts, raw>>
    /\ UNCHANGED clientVars
    /\ UNCHANGED unitVars

\* 101-102: the checkpoint comes back from the store, the adapter is built
\* with it; or the store raises.
ResolveCheckpoint(n) ==
    /\ task[n].pc = "checkpoint"
    /\ \/ /\ \E id \in LatestSourceIds(raw, n) :
               task' = [ task EXCEPT ![n].pc = "context", ![n].checkpoint = id ]
          /\ UNCHANGED <<sem_value, domain_limiters, metrics, upserts, raw>>
       \/ RunFails(n, "checkpoint")
    /\ UNCHANGED <<adapter_names, settings, run_pc, batch>>
    /\ UNCHANGED clientVars
    /\ UNCHANGED unitVars

\* 104-113: browser context and page; or the browser raises.
NewContext(n) ==
    /\ task[n].pc = "context"
    /\ \/ /\ task' = [ task EXCEPT ![n].pc = "navigate", ![n].session = "open",
                                   ![n].page = "page" ]
          /\ UNCHANGED <<sem_value, domain_limiters, metrics, upserts, raw>>
       \/ RunFails(n, "context")
    /\ UNCHANGED <<adapter_names, settings, run_pc, batch>>
    /\ UNCHANGED clientVars
    /\ UNCHANGED unitVars

\* 115, 137-145: one page.goto under tenacity. It succeeds, or it fails and
\* tenacity either stops (reraise=True: the last error reaches the caller) or
\* waits and tries again.
Navigate(n) ==
    /\ task[n].pc = "navigate"
    /\ \/ /\ task' = [ task EXCEPT ![n].pc = "login", ![n].attempts = @ + 1 ]
          /\ UNCHANGED <<sem_value, domain_limiters, metrics, upserts, raw>>
       \/ /\ ~StopAfterAttempt(task[n].attempts + 1, settings.max_retries)
          /\ task' = [ task EXCEPT ![n].attempts = @ + 1 ]
          /\ UNCHANGED <<sem_value, domain_limiters, metrics, upserts, raw>>
       \/ /\ StopAfterAttempt(task[n].attempts + 1, settings.max_retries)
          /\ task' = Failed([ task EXCEPT ![n].attempts = @ + 1 ], n, "navigate")
          /\ metrics' = [ metrics EXCEPT !.failures = @ + 1 ]
          /\ sem_value' = Release(sem_value)
          /\ UNCHANGED <<raw, domain_limiters, upserts>>
    /\ UNCHANGED <<adapter_names, settings, run_pc, batch>>
    /\ UNCHANGED clientVars
    /\ UNCHANGED unitVars

\* 116-118: adapter.login (the retry state of the navigation is gone); then
\* the limiter of the adapter's domain is looked up, and created when the
\* domain has none (_get_limiter, 63-68).
Login(n) ==
    /\ task[n].pc = "login"
    /\ \/ /\ task' = [ task EXCEPT ![n].pc = "extract", ![n].attempts = 0,
                                   ![n].did = @ \cup {"login"} ]
          /\ domain_limiters' = domain_limiters \cup {Domain(n)}
          /\ UNCHANGED <<sem_value, metrics, upserts, raw>>
       \/ RunFails(n, "login")
    /\ UNCHANGED <<adapter_names, settings, run_pc, batch>>
    /\ UNCHANGED clientVars
    /\ UNCHANGED unitVars

\* A mis-step: the limiter entered once, ahead of the first record only.
BodyEntryThrottledOnce(did) == IF "upsert" \in did THEN "find" ELSE "limiter"

\* A mis-step: the upsert is left behind and the next record is pulled.
BodyEntryPullsAhead(did) == "extract"

\* 120-121: the body of the `async for` begins with `async with limiter`.
BodyEntry(did) == "limiter"

\* 120 and the adapters' extract: the generator is resumed. It yields the
\* next row as a RawRecord (fetched_at = utcnow), or ends at the checkpoint or
\* at the end of the listing (then 128, context.close, is awaited), or raises.
Extract(n) ==
    /\ task[n].pc = "extract"
    /\ \/ /\ task[n].cursor <= Len(Feed(n))
          /\ ~StopsAtCheckpoint(n, task[n].checkpoint, Feed(n)[task[n].cursor])
          /\ LET id == Feed(n)[task[n].cursor]
             IN  task' = [ task EXCEPT
                             ![n].pc = BodyEntry(task[n].did),
                             ![n].did = @ \cup {"extract"},
                             ![n].cursor = @ + 1,
                             ![n].record = RawRecord(id, n, UtcNow(batch, task[n].cursor),
                                                     RowPayload(n, id), EmptyStr) ]
          /\ UNCHANGED <<sem_value, domain_limiters, metrics, upserts, raw>>
       \/ /\ \/ task[n].cursor > Len(Feed(n))
             \/ /\ task[n].cursor <= Len(Feed(n))
                /\ StopsAtCheckpoint(n, task[n].checkpoint,
                                     Feed(n)[task[n].cursor])
          /\ task' = [ task EXCEPT ![n].pc = "close", ![n].record = None ]
          /\ UNCHANGED <<sem_value, domain_limiters, metrics, upserts, raw>>
       \/ RunFails(n, "extract")
    /\ UNCHANGED <<adapter_names, settings, run_pc, batch>>
    /\ UNCHANGED clientVars
    /\ UNCHANGED unitVars

\* AsyncLimiter.acquire(amount): `if amount > self.max_rate: raise ValueError`,
\* the rate being in tenths.
ExceedsMaxRate(amount, max_rate) == 10 * amount > max_rate

\* 121: `async with limiter`, a token of the domain's limiter is acquired, in
\* time; or acquire raises, the limiter's capacity being less than one token.
AcquireToken(n) ==
    /\ task[n].pc = "limiter"
    /\ Domain(n) \in domain_limiters
    /\ IF ExceedsMaxRate(1, settings.rate_limit_per_domain)
       THEN RunFails(n, "limiter")
       ELSE /\ task' = [ task EXCEPT ![n].pc = "find", ![n].tokens = @ + 1 ]
            /\ UNCHANGED <<sem_value, domain_limiters, metrics, upserts, raw>>
    /\ UNCHANGED <<adapter_names, settings, run_pc, batch>>
    /\ UNCHANGED clientVars
    /\ UNCHANGED unitVars

\* 122 into upsert_raw (mongo.py 82-86): find_one; an unchanged record returns
\* False and is counted as skipped (125-126); or the store raises.
UpsertFind(n) ==
    /\ task[n].pc = "find"
    /\ \/ LET existing == Project(FindOne(raw, RawFilter(task[n].record)),
                                  {"content_hash"})
          IN  IF Unchanged(existing, task[n].record)
              THEN /\ task' = [ task EXCEPT ![n].pc = "extract",
                                            ![n].record = None,
                                            ![n].tokens = 0,
                                            ![n].did = @ \cup {"upsert"} ]
                   /\ metrics' = Count(metrics, FALSE)
                   /\ upserts' = [ upserts EXCEPT !.unchanged = @ + 1 ]
                   /\ UNCHANGED <<sem_value, domain_limiters, raw>>
              ELSE /\ task' = [ task EXCEPT ![n].pc = "update" ]
                   /\ UNCHANGED <<sem_value, domain_limiters, metrics,
                                  upserts, raw>>
       \/ RunFails(n, "store")
    /\ UNCHANGED <<adapter_names, settings, run_pc, batch>>
    /\ UNCHANGED clientVars
    /\ UNCHANGED unitVars

\* upsert_raw (mongo.py 87-93): update_one with upsert, True is returned and
\* counted as collected (123-124); or the store raises and nothing is written.
UpsertUpdate(n) ==
    /\ task[n].pc = "update"
    /\ \/ /\ raw' = UpdateOne(raw, RawFilter(task[n].record), task[n].record)
          /\ task' = [ task EXCEPT ![n].pc = "extract", ![n].record = None,
                                   ![n].tokens = 0,
                                   ![n].did = @ \cup {"upsert"} ]
          /\ metrics' = Count(metrics, TRUE)
          /\ upserts' = [ upserts EXCEPT !.written = @ + 1 ]
          /\ UNCHANGED <<sem_value, domain_limiters>>
       \/ RunFails(n, "store")
    /\ UNCHANGED <<adapter_names, settings, run_pc, batch>>
    /\ UNCHANGED clientVars
    /\ UNCHANGED unitVars

\* 128-129 and the exit of the `async with`: the context is closed, the run
\* is done and its slot released; or context.close raises.
CloseContext(n) ==
    /\ task[n].pc = "close"
    /\ \/ /\ task' = [ task EXCEPT
                          ![n] = [ Finished(@, "done", "none") EXCEPT
                                     !.session = "closed" ] ]
          /\ sem_value' = Release(sem_value)
          /\ UNCHANGED <<domain_limiters, metrics, upserts, raw>>
       \/ RunFails(n, "close")
    /\ UNCHANGED <<adapter_names, settings, run_pc, batch>>
    /\ UNCHANGED clientVars
    /\ UNCHANGED unitVars

Next ==
    \/ RunStart
    \/ RunReturn
    \/ \E n \in adapter_names :
          \/ Start(n)
          \/ Admit(n)
          \/ ResolveCheckpoint(n)
          \/ NewContext(n)
          \/ Navigate(n)
          \/ Login(n)
          \/ Extract(n)
          \/ AcquireToken(n)
          \/ UpsertFind(n)
          \/ UpsertUpdate(n)
          \/ CloseContext(n)

\* One Orchestrator, its run() called up to MaxBatches times.
Spec == Init /\ [][Next]_vars

NextStore ==
    \E c \in Clients :
        \/ BeginUpsertRaw(c)
        \/ FindRaw(c)
        \/ WriteRaw(c)
        \/ BeginUpsertCanonical(c)
        \/ FindCanonical(c)
        \/ WriteCanonical(c)

\* Concurrent store callers.
SpecStore == InitStore /\ [][NextStore]_vars

NextSeq ==
    \/ BeginUpsertRaw("c1")
    \/ FindRaw("c1")
    \/ WriteRaw("c1")
    \/ BeginUpsertCanonical("c1")
    \/ FindCanonical("c1")
    \/ WriteCanonical("c1")
    \/ GetLatestSourceId("c1")

\* One store caller: every call returns before the next is made.
SpecSeq == InitStore /\ [][NextSeq]_vars

(***************************************************************************)
(* extract() on its own: any listing, any checkpoint, either adapter.      *)
(***************************************************************************)
InitExtract ==
    /\ StoreInit
    /\ OrchInit
    /\ settings = [ max_concurrency |-> MaxConcurrencyCfg,
                    max_retries |-> MaxRetriesCfg,
                    rate_limit_per_domain |-> 10 * RateLimitPerDomain ]
    /\ gen \in [ adapter : CliAdapters, rows : Listings, checkpoint : Checkpoints,
                  pos : {1}, yielded : { << >> }, pc : {"created"} ]
    /\ limiters = NoLimiters
    /\ bucket = << >>
    /\ runner = NoRunners
    /\ persisted = NothingPersisted
    /\ built = NothingBuilt
    /\ conn = Connected
    /\ registry = EmptyRegistry
    /\ registered = << >>
    /\ looked = NoLookup
    /\ retrying = NotRetrying
    /\ keyed = NothingKeyed

NextExtract ==
    \/ GenYield
    \/ GenReturn

SpecExtract == InitExtract /\ [][NextExtract]_vars

(***************************************************************************)
(* MongoStore.connect (mongo.py 30-62) with a caller that upserts through  *)
(* the same store object meanwhile, before, or after connect() raised.     *)
(***************************************************************************)
otherUnits == <<gen, limiters, bucket, runner, persisted, built, registry,
                registered, looked, retrying, keyed>>

\* connect(), 32-34 and _ensure_indexes 44-45 up to its first await: _client
\* and _db are set, the raw handle is taken, create_indexes is under way.
ConnectBegin ==
    /\ conn.pc = "new"
    /\ conn' = [ conn EXCEPT !.pc = "raw_indexes", !.db = TRUE ]
    /\ UNCHANGED otherUnits
    /\ UNCHANGED storeVars
    /\ UNCHANGED orchVars

\* 45-52: raw.create_indexes returns and the canonical indexes are asked for;
\* or it raises, and connect() with it.
CreateRawIndexes ==
    /\ conn.pc = "raw_indexes"
    /\ \/ conn' = [ conn EXCEPT !.pc = "canonical_indexes", !.raw_unique = TRUE ]
       \/ conn' = [ conn EXCEPT !.pc = "failed" ]
    /\ UNCHANGED otherUnits
    /\ UNCHANGED storeVars
    /\ UNCHANGED orchVars

\* 53-62 and 35: canon.create_indexes returns and connect() with it; or it
\* raises, and connect() with it.
CreateCanonicalIndexes ==
    /\ conn.pc = "canonical_indexes"
    /\ \/ conn' = [ conn EXCEPT !.pc = "connected", !.canonical_unique = TRUE ]
       \/ conn' = [ conn EXCEPT !.pc = "failed" ]
    /\ UNCHANGED otherUnits
    /\ UNCHANGED storeVars
    /\ UNCHANGED orchVars

\* 83 / 106 on a store without _db: the accessor's assert fails and the
\* upsert raises AssertionError before it has asked the server anything.
AssertionRaised(c) ==
    /\ call[c].pc = "find"
    /\ ~HasDb(conn)
    /\ call' = [ call EXCEPT ![c].pc = "raised" ]
    /\ UNCHANGED <<raw, canonical, now, prev, ncalls, cwrites>>
    /\ UNCHANGED orchVars
    /\ UNCHANGED unitVars

InitConnect ==
    /\ StoreInit
    /\ OrchInit
    /\ settings = [ max_concurrency |-> MaxConcurrencyCfg,
                    max_retries |-> MaxRetriesCfg,
                    rate_limit_per_domain |-> 10 * RateLimitPerDomain ]
    /\ gen = NoGen
    /\ limiters = NoLimiters
    /\ bucket = << >>
    /\ runner = NoRunners
    /\ persisted = NothingPersisted
    /\ built = NothingBuilt
    /\ conn = NotConnected
    /\ registry = EmptyRegistry
    /\ registered = << >>
    /\ looked = NoLookup
    /\ retrying = NotRetrying
    /\ keyed = NothingKeyed

NextConnect ==
    \/ ConnectBegin
    \/ CreateRawIndexes
    \/ CreateCanonicalIndexes
    \/ AssertionRaised("c1")
    \/ BeginUpsertRaw("c1")
    \/ FindRaw("c1")
    \/ WriteRaw("c1")
    \/ BeginUpsertCanonical("c1")
    \/ FindCanonical("c1")
    \/ WriteCanonical("c1")

SpecConnect == InitConnect /\ [][NextConnect]_vars

(***************************************************************************)
(* The adapter registry (adapters/registry.py) on its own.                 *)
(***************************************************************************)
\* Classes handed to register_adapter: the two adapters of the package, the
\* test adapter, and a second class that carries the test adapter's name.
AdapterClasses ==
    {"NYCProcurementAdapter", "SamGovAdapter", "DummyAdapter", "DummyAdapterB"}

\* cls.meta.name
MetaName(cls) ==
    CASE cls = "NYCProcurementAdapter" -> "nyc_procurement"
      [] cls = "SamGovAdapter"         -> "sam_gov"
      [] cls = "DummyAdapter"          -> "dummy"
      [] cls = "DummyAdapterB"         -> "dummy"

\* Names get_adapter is asked for; no class carries the last one.
LookupNames == {"nyc_procurement", "dummy", "nonexistent_adapter_xyz"}

\* A mis-step: the first class registered under a name stays.
SetItemIfAbsent(dict, key, value) ==
    IF key \in DOMAIN dict THEN dict ELSE (key :> value) @@ dict

\* `dict[key] = value`
SetItem(dict, key, value) == (key :> value) @@ dict

\* register_adapter(cls), 11-14.
RegisterAdapter(cls) ==
    /\ Len(registered) < MaxRegistrations
    /\ registry' = SetItem(registry, MetaName(cls), cls)
    /\ registered' = Append(registered, cls)
    /\ UNCHANGED <<gen, limiters, bucket, runner, persisted, built, conn,
                   looked, retrying, keyed>>
    /\ UNCHANGED storeVars
    /\ UNCHANGED orchVars

\* get_adapter(name), 17-22: the class under the name, or KeyError.
GetAdapter(name) ==
    /\ looked' = [ name |-> name,
                   outcome |-> IF name \in DOMAIN registry THEN registry[name]
                               ELSE "KeyError" ]
    /\ UNCHANGED <<gen, limiters, bucket, runner, persisted, built, conn,
                   registry, registered, retrying, keyed>>
    /\ UNCHANGED storeVars
    /\ UNCHANGED orchVars

InitRegistry ==
    /\ StoreInit
    /\ OrchInit
    /\ settings = [ max_concurrency |-> MaxConcurrencyCfg,
                    max_retries |-> MaxRetriesCfg,
                    rate_limit_per_domain |-> 10 * RateLimitPerDomain ]
    /\ gen = NoGen
    /\ limiters = NoLimiters
    /\ bucket = << >>
    /\ runner = NoRunners
    /\ persisted = NothingPersisted
    /\ built = NothingBuilt
    /\ conn = Connected
    /\ registry = EmptyRegistry
    /\ registered = << >>
    /\ looked = NoLookup
    /\ retrying = NotRetrying
    /\ keyed = NothingKeyed

NextRegistry ==
    \/ \E cls \in AdapterClasses : RegisterAdapter(cls)
    \/ \E name \in LookupNames : GetAdapter(name)

SpecRegistry == InitRegistry /\ [][NextRegistry]_vars

(***************************************************************************)
(* RawRecord(...) on its own: two constructions from any two mappings.     *)
(***************************************************************************)
\* RawRecord(source_id=..., source_name=..., source_url=..., extracted=...):
\* the instance after the model validator ran (schemas.py 51-57).
Construct(sl) ==
    /\ built[sl].rec = None
    /\ built' = [ built EXCEPT ![sl].rec =
                    RawRecord("123", "test_source", 1, built[sl].extracted,
                              EmptyStr) ]
    /\ UNCHANGED <<gen, limiters, bucket, runner, persisted>>
    /\ UNCHANGED <<conn, registry, registered, looked, retrying, keyed>>
    /\ UNCHANGED storeVars
    /\ UNCHANGED orchVars

InitSchema ==
    /\ StoreInit
    /\ OrchInit
    /\ settings = [ max_concurrency |-> MaxConcurrencyCfg,
                    max_retries |-> MaxRetriesCfg,
                    rate_limit_per_domain |-> 10 * RateLimitPerDomain ]
    /\ gen = NoGen
    /\ limiters = NoLimiters
    /\ bucket = << >>
    /\ runner = NoRunners
    /\ persisted = NothingPersisted
    /\ \E e \in [ Slots -> StructuredPayloads ] :
          built = [ sl \in Slots |-> [ extracted |-> e[sl], rec |-> None ] ]
    /\ conn = Connected
    /\ registry = EmptyRegistry
    /\ registered = << >>
    /\ looked = NoLookup
    /\ retrying = NotRetrying
    /\ keyed = NothingKeyed

NextSchema == \E sl \in Slots : Construct(sl)

SpecSchema == InitSchema /\ [][NextSchema]_vars

(***************************************************************************)
(* The throttled loop of the runs, orchestrator.py 118-126.                *)
(***************************************************************************)
\* 118, _get_limiter (63-68): the limiter of the domain is looked up, and
\* constructed (empty) when the dict has none; no await in between.
GetLimiter(r) ==
    /\ runner[r].pc = "start"
    /\ LET d == Domain(runner[r].adapter)
       IN  IF HasLimiter(limiters, d)
           THEN /\ runner' = [ runner EXCEPT ![r].pc = "loop",
                                             ![r].limiter = limiters[d] ]
                /\ UNCHANGED <<limiters, bucket>>
           ELSE /\ bucket' = Append(bucket, 0)
                /\ limiters' = [ limiters EXCEPT ![d] = Len(bucket) + 1 ]
                /\ runner' = [ runner EXCEPT ![r].pc = "loop",
                                             ![r].limiter = Len(bucket) + 1 ]
    /\ UNCHANGED <<persisted, gen>>
    /\ UNCHANGED storeVars
    /\ UNCHANGED orchVars
    /\ UNCHANGED laterUnits

\* 120: the generator yields the next record, or is exhausted.
NextRecord(r) ==
    /\ runner[r].pc = "loop"
    /\ runner' = [ runner EXCEPT ![r].pc = IF runner[r].left > 0 THEN "token"
                                           ELSE "done" ]
    /\ UNCHANGED <<limiters, bucket, persisted, gen>>
    /\ UNCHANGED storeVars
    /\ UNCHANGED orchVars
    /\ UNCHANGED laterUnits

\* 121: `async with limiter` acquires one token of the limiter the run
\* holds, once that limiter has the capacity.
EnterLimiter(r) ==
    /\ runner[r].pc = "token"
    /\ HasCapacity(bucket[runner[r].limiter], 1)
    /\ bucket' = [ bucket EXCEPT ![runner[r].limiter] = @ + 1 ]
    /\ runner' = [ runner EXCEPT ![r].pc = "upsert" ]
    /\ UNCHANGED <<limiters, persisted, gen>>
    /\ UNCHANGED storeVars
    /\ UNCHANGED orchVars
    /\ UNCHANGED laterUnits

\* 122-126: the record is persisted, at the present time.
Persist(r) ==
    /\ runner[r].pc = "upsert"
    /\ persisted' = [ persisted EXCEPT
                        ![Domain(runner[r].adapter)].count = @ + 1 ]
    /\ runner' = [ runner EXCEPT ![r].pc = "loop", ![r].left = @ - 1 ]
    /\ UNCHANGED <<limiters, bucket, gen>>
    /\ UNCHANGED storeVars
    /\ UNCHANGED orchVars
    /\ UNCHANGED laterUnits

\* Records of domain d are still to be persisted after its first.
Ageing(d) ==
    /\ persisted[d].count > 0
    /\ \E r \in Runners : Domain(runner[r].adapter) = d /\ runner[r].left > 0

\* Time passes, one tick: every limiter leaks.
Tick ==
    /\ \A d \in LimDomains : persisted[d].age < MaxClock
    /\ bucket' = [ i \in DOMAIN bucket |-> Leak(bucket[i]) ]
    /\ persisted' = [ d \in LimDomains |->
                        [ persisted[d] EXCEPT
                            !.age = IF Ageing(d) THEN @ + 1 ELSE @ ] ]
    /\ UNCHANGED <<limiters, runner, gen>>
    /\ UNCHANGED storeVars
    /\ UNCHANGED orchVars
    /\ UNCHANGED laterUnits

\* An Orchestrator whose runs have reached line 118, with records to persist.
InitLimiter ==
    /\ StoreInit
    /\ OrchInit
    /\ settings = [ max_concurrency |-> MaxConcurrencyCfg,
                    max_retries |-> MaxRetriesCfg,
                    rate_limit_per_domain |-> 10 * RateLimitPerDomain ]
    /\ gen = NoGen
    /\ limiters = NoLimiters
    /\ bucket = << >>
    /\ \E a \in [ Runners -> CliAdapters ], share \in Shares :
          runner = [ r \in Runners |->
                       [ adapter |-> a[r], limiter |-> 0, pc |-> "start",
                         left |-> share[r] ] ]
    /\ persisted = NothingPersisted
    /\ built = NothingBuilt
    /\ conn = Connected
    /\ registry = EmptyRegistry
    /\ registered = << >>
    /\ looked = NoLookup
    /\ retrying = NotRetrying
    /\ keyed = NothingKeyed

NextLimiter ==
    \/ Tick
    \/ \E r \in Runners :
          \/ GetLimiter(r)
          \/ NextRecord(r)
          \/ EnterLimiter(r)
          \/ Persist(r)

SpecLimiter == InitLimiter /\ [][NextLimiter]_vars

(***************************************************************************)
(* Claims about the orchestrator.                                          *)
(***************************************************************************)
Holding == { n \in AdapterNames : task[n].pc \in HoldingPcs }

FailedRuns == { n \in AdapterNames : task[n].pc = "failed" }

Max(a, b) == IF a >= b THEN a ELSE b

\* C1: at most max_concurrency runs are past the gate and not yet DONE or
\* FAILED; the permits taken are exactly those of the runs under way; a run
\* takes its permit once, has it from NAVIGATING on and until it is terminal.
C1_GateBound ==
    /\ Cardinality(Holding) <= settings.max_concurrency
    /\ sem_value = settings.max_concurrency - Cardinality(Holding)
    /\ \A n \in AdapterNames :
          task[n].acquires =
              IF task[n].pc \in HoldingPcs \cup TerminalPcs THEN 1 ELSE 0

\* C1 happens: the gate is full with two runs while a third waits for it.
C1_Witness ==
    /\ settings.max_concurrency = 2
    /\ Cardinality(Holding) = 2
    /\ \E n \in AdapterNames : task[n].pc = "acquire"

\* Errors of a run's own operations.
OwnFaults ==
    {"get_adapter", "checkpoint", "context", "navigate", "login", "extract",
     "limiter", "store", "close"}

\* The batch of the run-isolation example has returned: max_concurrency = 2,
\* three sources, only sam_gov's navigation failed, on every attempt.
IsolationScenario ==
    /\ run_pc = "returned"
    /\ settings.max_concurrency = 2
    /\ task["sam_gov"].fault = "navigate"
    /\ task["nyc_procurement"].fault = "none"
    /\ task["dummy"].fault = "none"

\* C2: a run is FAILED only by an error of its own operations and DONE only
\* without one; a failed run has given its slot back, so a run waiting at the
\* gate waits only for runs that are still under way; in the example the two
\* other sources are DONE and the summary reports failures = 1.
C2_RunIsolation ==
    /\ \A n \in AdapterNames :
          /\ task[n].pc = "failed" => task[n].fault \in OwnFaults
          /\ task[n].pc = "done" => task[n].fault = "none"
          /\ task[n].pc \in TerminalPcs \/ task[n].fault = "none"
          /\ task[n].pc = "acquire" =>
                \/ sem_value > 0
                \/ Cardinality(Holding) = settings.max_concurrency
    /\ IsolationScenario =>
          /\ task["nyc_procurement"].pc = "done"
          /\ task["dummy"].pc = "done"
          /\ metrics.failures = 1

\* C2 happens: the example's batch on an empty store, both other sources
\* having collected their records.
C2_Witness ==
    /\ IsolationScenario
    /\ batch = 1
    /\ task["sam_gov"].pc = "failed"
    /\ task["sam_gov"].attempts = 2
    /\ metrics.items_collected = 3
    /\ metrics.failures = 1

\* C6: an error raised while producing or persisting one item is caught and
\* extraction goes on: no run is FAILED by such an error.
C6_ItemErrorsCaught ==
    \A n \in AdapterNames :
        task[n].fault \in {"extract", "store"} => task[n].pc # "failed"

\* C7: a store error raised by upsert_raw ends the run FAILED, failures grows
\* by exactly one, and no stored document changes.
C7_StoreErrorFailsRun ==
    [][ \A n \in AdapterNames :
          (task[n].pc \in {"find", "update"} /\ task'[n].fault = "store") =>
              /\ task'[n].pc = "failed"
              /\ metrics'.failures = metrics.failures + 1
              /\ metrics'.items_collected = metrics.items_collected
              /\ metrics'.items_skipped = metrics.items_skipped
              /\ raw' = raw ]_vars

\* C7 happens: a run failed by a store error of its second upsert while the
\* documents written before it, its own and another run's, are in the store.
C7_Witness ==
    /\ task["nyc_procurement"].pc = "failed"
    /\ task["nyc_procurement"].fault = "store"
    /\ "upsert" \in task["nyc_procurement"].did
    /\ \E d \in raw : d.source_name = "dummy"
    /\ \E d \in raw : d.source_name = "nyc_procurement"
    /\ metrics.failures = 1

\* C8 as stated: a run makes at most max_retries navigation attempts.
C8_AtMostMaxRetriesAttempts ==
    \A n \in AdapterNames : task[n].attempts <= settings.max_retries

\* C8, amended: a run makes at most max(1, max_retries) navigation attempts;
\* when all of them fail the run is FAILED by the navigation error, having
\* made exactly that many attempts and no login, extraction or upsert.
C8_NavigationRetries ==
    \A n \in AdapterNames :
        /\ task[n].attempts <= Max(1, settings.max_retries)
        /\ task[n].pc = "navigate" =>
              task[n].attempts < Max(1, settings.max_retries)
        /\ task[n].fault = "navigate" =>
              /\ task[n].pc = "failed"
              /\ task[n].attempts = Max(1, settings.max_retries)
              /\ task[n].did = {}

\* C8 happens: a navigation gave up after its second failed attempt.
C8_Witness ==
    \E n \in AdapterNames :
        /\ task[n].fault = "navigate"
        /\ settings.max_retries = 2
        /\ task[n].attempts = 2

\* C9: from the start of a batch until run() has returned, failures is the
\* number of FAILED runs of this batch, items_collected the number of its
\* upsert_raw calls that returned True and items_skipped of those that
\* returned False.
C9_SummaryCounts ==
    run_pc \in {"gather", "returned"} =>
        /\ metrics.failures = Cardinality(FailedRuns)
        /\ metrics.items_collected = upserts.written
        /\ metrics.items_skipped = upserts.unchanged

\* C9 happens: a second batch has returned with a record collected, a record
\* skipped and a failed run, after a first batch that counted other numbers.
C9_Witness ==
    /\ run_pc = "returned"
    /\ batch = 2
    /\ metrics.items_collected = 1
    /\ metrics.items_skipped = 1
    /\ metrics.failures = 1
    /\ Cardinality(raw) = 3

\* C10: run() returns only when every run is DONE or FAILED, whichever of
\* them failed, and no failed run keeps it from returning.
C10_RunReturnsAfterAll ==
    /\ run_pc = "returned" => \A n \in AdapterNames : task[n].pc \in TerminalPcs
    /\ (run_pc = "gather" /\ \A n \in AdapterNames : task[n].pc \in TerminalPcs)
          => ENABLED RunReturn

\* C10 happens: run() has returned from a batch in which every run failed.
C10_Witness ==
    /\ run_pc = "returned"
    /\ FailedRuns = AdapterNames
    /\ metrics.failures = 3

(***************************************************************************)
(* Claims about the record store.                                          *)
(***************************************************************************)
SameKey(r1, r2) == RawFilter(r1) = RawFilter(r2)

\* Two consecutive, completed upsert_raw calls of the sequential caller with
\* the same natural key and the same data in `extracted`.
TwiceSamePayload ==
    /\ call["c1"].pc = "returned" /\ call["c1"].op = "upsert_raw"
    /\ prev["c1"].pc = "returned" /\ prev["c1"].op = "upsert_raw"
    /\ SameKey(prev["c1"].rec, call["c1"].rec)
    /\ Items(prev["c1"].rec.extracted) = Items(call["c1"].rec.extracted)

\* C3: sequential upsert_raw, twice, same (source_name, source_id) and the same
\* extracted data: the second call reports unchanged and leaves the stored
\* document, fetched_at included, as the first call left it; the first call
\* reports written whenever the store did not already hold that data, so the
\* two calls make exactly one write.
C3_UpsertRawIdempotent ==
    TwiceSamePayload =>
        LET first  == prev["c1"]
            second == call["c1"]
            stored == FindOne(raw, RawFilter(second.rec))
        IN  /\ second.result = FALSE
            /\ stored = second.before
            /\ stored.fetched_at # second.rec.fetched_at
            /\ (first.before = None
                \/ Items(first.before.extracted) # Items(first.rec.extracted))
                  => /\ first.result = TRUE
                     /\ stored.fetched_at = first.rec.fetched_at

\* C3 happens: written then unchanged, the second record holding the same data
\* in another insertion order.
C3_Witness ==
    /\ TwiceSamePayload
    /\ prev["c1"].result = TRUE
    /\ call["c1"].result = FALSE
    /\ prev["c1"].rec.extracted # call["c1"].rec.extracted

\* Two completed upsert_raw calls of different callers that ran concurrently on
\* one natural key with the same content_hash.
ConcurrentSamePayload(c, d) ==
    /\ c # d
    /\ call[c].pc = "returned" /\ call[c].op = "upsert_raw" /\ call[c].overlap
    /\ call[d].pc = "returned" /\ call[d].op = "upsert_raw" /\ call[d].overlap
    /\ SameKey(call[c].rec, call[d].rec)
    /\ call[c].rec.content_hash = call[d].rec.content_hash

\* C4: upsert_raw's check and write are atomic as a unit: two concurrent calls
\* on one key with identical payloads behave as in a serial order, where the
\* later call finds the hash stored, so at most one of them reports written.
C4_UpsertRawAtomic ==
    \A c, d \in Clients :
        ConcurrentSamePayload(c, d) => ~(call[c].result /\ call[d].result)

\* The canonical calls of the sequential caller agree with what they found.
CanonicalCallOutcome ==
    LET q      == call["c1"]
        stored == FindOne(canonical, CanonicalFilter(q.rec))
    IN  (q.pc = "returned" /\ q.op = "upsert_canonical") =>
            IF q.before # None /\ q.before.content_hash = q.rec.content_hash
            THEN q.result = FALSE /\ stored = q.before
            ELSE /\ q.result = TRUE
                 /\ stored.version = IF q.before = None THEN 1
                                     ELSE q.before.version + 1

\* C5: sequential upsert_canonical on a record_id: a call with the stored
\* content_hash writes nothing and reports unchanged, any other call stores
\* the previous version + 1 (1 when absent) and reports written, so the stored
\* version is the number of calls that reported written.
C5_VersionCountsWrites ==
    /\ CanonicalCallOutcome
    /\ \A id \in StoreRecordIds :
          LET d == FindOne(canonical, [ record_id |-> id ])
          IN  IF d = None THEN cwrites[id] = 0 ELSE d.version = cwrites[id]

\* C5 happens: a record written, rewritten with a changed title (version 2),
\* then upserted again with the stored hash (unchanged).
C5_Witness ==
    /\ call["c1"].pc = "returned" /\ call["c1"].op = "upsert_canonical"
    /\ call["c1"].result = FALSE
    /\ call["c1"].before.version = 2
    /\ FindOne(canonical, CanonicalFilter(call["c1"].rec)).version = 2

(***************************************************************************)
(* Claims about checkpoints and resumption.                                *)
(***************************************************************************)
Stored(n, source_id) ==
    \E d \in raw : d.source_name = n /\ d.source_id = source_id

\* Run n has ended its extraction at the checkpoint, before the end of the
\* listing.
StoppedAtCheckpoint(n) ==
    /\ task[n].pc = "close"
    /\ task[n].cursor <= Len(Feed(n))

\* C11: ingestion is at-least-once across runs: the checkpoint taken from the
\* store, also after a run that failed part-way, never makes a later run stop
\* ahead of a record that was never persisted; every record the listing
\* holds behind the row a run stops at is in the store.
C11_CheckpointKeepsUnpersisted ==
    \A n \in AdapterNames :
        StoppedAtCheckpoint(n) =>
            \A i \in task[n].cursor..Len(Feed(n)) : Stored(n, Feed(n)[i])

HasId(source_id) == source_id # ""

\* The id sequence of a listing: the ids of its rows, in the listing's order.
IdSequence(rows) == SelectSeq(rows, HasId)

FirstOccurrence(ids, c) ==
    IF \E i \in 1..Len(ids) : ids[i] = c
    THEN CHOOSE i \in 1..Len(ids) :
             ids[i] = c /\ \A j \in 1..(i - 1) : ids[j] # c
    ELSE Len(ids) + 1

\* The records that precede the first occurrence of c.
Preceding(ids, c) == SubSeq(ids, 1, FirstOccurrence(ids, c) - 1)

\* C12: given a checkpoint c, a source's extract yields exactly the records
\* that precede the first occurrence of c in the id sequence of its listing,
\* and then returns normally.
C12_ExtractStopsAtCheckpoint ==
    (gen.pc = "returned" /\ gen.checkpoint # NoneStr) =>
        gen.yielded = Preceding(IdSequence(gen.rows), gen.checkpoint)

\* The stored raw documents of one source.
DocsOf(source_name) == { d \in raw : d.source_name = source_name }

\* C13: get_latest_source_id(s) returns the source_id of the stored raw
\* record with the greatest fetched_at among those whose source_name is s,
\* and none when there is no such record, whatever other sources have stored.
C13_LatestSourceId ==
    LET q == call["c1"]
    IN  (q.pc = "returned" /\ q.op = "get_latest_source_id") =>
            IF DocsOf(q.source) = {} THEN q.latest = NoneStr
            ELSE \E d \in DocsOf(q.source) :
                    /\ d.source_id = q.latest
                    /\ \A o \in DocsOf(q.source) : o.fetched_at <= d.fetched_at

\* C13 happens: the source asked about has two records, the answer is the one
\* fetched later, and a record of another source was fetched later still.
C13_Witness ==
    LET q == call["c1"]
    IN  /\ q.pc = "returned" /\ q.op = "get_latest_source_id"
        /\ Cardinality(DocsOf(q.source)) = 2
        /\ q.latest = "X2"
        /\ \E x \in raw :
              /\ x.source_name # q.source
              /\ \A o \in DocsOf(q.source) : o.fetched_at < x.fetched_at

\* The canonical document of a record_id, or None.
CanonicalDoc(coll, id) == FindOne(coll, [ record_id |-> id ])

\* C14: for every record_id, created_at is set by the first write and no
\* later upsert_canonical changes it, while every write refreshes updated_at.
C14_CreatedAtSetOnce ==
    [][ \A id \in StoreRecordIds :
          LET old == CanonicalDoc(canonical, id)
              new == CanonicalDoc(canonical', id)
          IN  (old # None /\ new # old) =>
                  /\ new.created_at = old.created_at
                  /\ new.updated_at > old.updated_at ]_vars

(***************************************************************************)
(* Claims about the run state machine.                                     *)
(***************************************************************************)
StateOrder ==
    <<"PENDING", "ACQUIRING_SLOT", "NAVIGATING", "AUTHENTICATING", "EXTRACTING",
      "DONE">>

Rank(st) == CHOOSE i \in 1..Len(StateOrder) : StateOrder[i] = st

\* A run may go from state a to state b.
MayMove(a, b) ==
    \/ b = a
    \/ b = "FAILED" /\ a \notin {"PENDING", "DONE", "FAILED"}
    \/ a # "FAILED" /\ b # "FAILED" /\ Rank(b) = Rank(a) + 1

\* C15: within a batch each run moves only along PENDING, ACQUIRING_SLOT,
\* NAVIGATING, AUTHENTICATING, EXTRACTING, DONE, one state at a time, or to
\* FAILED from ACQUIRING_SLOT onward; DONE and FAILED are left by no step.
\* The checkpoint is set only by the store's answer, before the session
\* exists and before any navigation attempt; login is entered only from a
\* navigation attempt that succeeded; the store is written, and an upsert
\* completed, only by a run that is EXTRACTING and holds its slot.
C15_RunStateMachine ==
    [][ batch' = batch =>
          /\ \A n \in AdapterNames :
                task[n].pc # "none" =>
                  /\ MayMove(RunState(task[n].pc), RunState(task'[n].pc))
                  /\ task'[n].checkpoint # task[n].checkpoint =>
                        \/ task'[n].pc \in TerminalPcs
                        \/ /\ task[n].pc = "checkpoint"
                           /\ task[n].session = "none"
                           /\ task[n].attempts = 0
                  /\ task'[n].attempts > task[n].attempts =>
                        task[n].pc = "navigate"
                  /\ (task'[n].pc = "login" /\ task[n].pc # "login") =>
                        /\ task[n].pc = "navigate"
                        /\ task'[n].attempts = task[n].attempts + 1
                        /\ task'[n].fault = "none"
                  /\ "login" \in task'[n].did \ task[n].did =>
                        task[n].pc = "login"
                  /\ "upsert" \in task'[n].did \ task[n].did =>
                        /\ RunState(task[n].pc) = "EXTRACTING"
                        /\ n \in Holding
          /\ raw' # raw =>
                \E n \in Holding :
                    /\ RunState(task[n].pc) = "EXTRACTING"
                    /\ task[n].record # None
                    /\ raw' = UpdateOne(raw, RawFilter(task[n].record),
                                        task[n].record) ]_vars

\* C15 happens: in one batch a run went all the way to DONE, persisting a
\* record, one failed while AUTHENTICATING and one while EXTRACTING.
C15_Witness ==
    /\ task["dummy"].pc = "done"
    /\ task["dummy"].did = {"login", "extract", "upsert"}
    /\ task["sam_gov"].pc = "failed" /\ task["sam_gov"].fault = "login"
    /\ task["nyc_procurement"].pc = "failed"
    /\ task["nyc_procurement"].fault = "extract"
    /\ "upsert" \in task["nyc_procurement"].did

\* C16: a run that is terminal has released its session: whenever a run
\* is FAILED after its browser context was created, the context has been
\* closed, as it has when the run is DONE.
C16_TerminalRunReleasedSession ==
    \A n \in AdapterNames :
        task[n].pc \in TerminalPcs => task[n].session # "open"

(***************************************************************************)
(* Claims about the per-domain limiters.                                   *)
(***************************************************************************)
\* Run n is inside upsert_raw.
Upserting(n) == task[n].pc \in {"find", "update"}

\* C17: every upsert_raw call of a run is preceded by exactly one token
\* acquisition on the limiter of the run's domain, made after the record was
\* yielded and before the upsert starts: a run holds no token when a record
\* has just been yielded, one token (of a limiter its domain has) all the
\* time it is inside upsert_raw, and the store is written only by a run that
\* acquired its token for the record it writes.
C17_TokenPerUpsert ==
    [][ /\ \A n \in AdapterNames :
              /\ task'[n].pc = "limiter" =>
                    task'[n].tokens = 0 /\ task'[n].record # None
              /\ Upserting(n)' =>
                    /\ task'[n].tokens = 1
                    /\ task'[n].record # None
                    /\ Domain(n) \in domain_limiters'
              /\ (Upserting(n)' /\ ~Upserting(n)) => task[n].pc = "limiter"
        /\ raw' # raw =>
              \E n \in AdapterNames :
                  /\ Upserting(n) /\ task[n].tokens = 1
                  /\ raw' = UpdateOne(raw, RawFilter(task[n].record),
                                      task[n].record) ]_vars

\* C17 happens: a run has persisted its first record and is inside the
\* upsert of its second, with the one token it acquired for it.
C17_Witness ==
    /\ task["nyc_procurement"].pc = "update"
    /\ task["nyc_procurement"].tokens = 1
    /\ task["nyc_procurement"].record.source_id = "n1"
    /\ Stored("nyc_procurement", "n2")

\* The domains that have a limiter.
Limited(dict) == { d \in LimDomains : dict[d] # 0 }

\* C18: the orchestrator holds at most one limiter per domain: a limiter is
\* constructed only by the first _get_limiter call for its domain, the dict
\* entry of a domain is never replaced, and every run holds the limiter the
\* dict has for the domain of its base URL, so runs of one domain share it.
C18_OneLimiterPerDomain ==
    [][ /\ \A d \in LimDomains : limiters[d] # 0 => limiters'[d] = limiters[d]
        /\ Len(bucket') = Cardinality(Limited(limiters'))
        /\ Len(bucket') > Len(bucket) =>
              \E r \in Runners :
                  /\ runner[r].pc = "start"
                  /\ limiters[Domain(runner[r].adapter)] = 0
                  /\ limiters'[Domain(runner[r].adapter)] = Len(bucket')
        /\ \A r \in Runners :
              runner'[r].pc \notin {"none", "start"} =>
                  /\ runner'[r].limiter # 0
                  /\ runner'[r].limiter = limiters'[Domain(runner'[r].adapter)]
        /\ \A r, q \in Runners :
              (/\ runner'[r].limiter # 0 /\ runner'[q].limiter # 0
               /\ Domain(runner'[r].adapter) = Domain(runner'[q].adapter))
                  => runner'[r].limiter = runner'[q].limiter ]_vars

\* C18 happens: two interleaved runs of one domain have both persisted
\* records under the one limiter that domain has, and none other was made.
C18_Witness ==
    /\ runner["r1"].adapter = runner["r2"].adapter
    /\ runner["r1"].pc = "upsert" /\ runner["r2"].pc = "token"
    /\ runner["r1"].left < MaxRecords \div 2
    /\ runner["r2"].left < MaxRecords \div 2
    /\ runner["r1"].limiter = runner["r2"].limiter
    /\ Len(bucket) = 1

\* C19: with rate_limit_per_domain = 2.0 and 10 records of one domain, the
\* time from the first to the last persisted record is at least 4.5 seconds
\* (a tick is 1 / RateLimitPerDomain seconds, so 4.5 seconds are
\* 4.5 * RateLimitPerDomain ticks).
C19_TenRecordsTakeFourAndAHalfSeconds ==
    \A d \in LimDomains :
        persisted[d].count = MaxRecords =>
            2 * persisted[d].age >= 9 * RateLimitPerDomain

\* Run n ends FAILED in this step.
Fails(n) == task[n].pc # "failed" /\ task'[n].pc = "failed"

\* C20: when a run ends FAILED after some of its upserts completed, the
\* documents those upserts wrote stay in the store as written: the step that
\* fails a run leaves the raw collection as it is, and the collection changes
\* only by the update_one of a run that is inside upsert_raw and goes on.
C20_NoRollbackOnFailure ==
    [][ /\ \A n \in AdapterNames : Fails(n) => raw' = raw
        /\ raw' # raw =>
              \E n \in AdapterNames :
                  /\ task[n].pc = "update"
                  /\ task[n].record # None
                  /\ ~Fails(n)
                  /\ raw' = UpdateOne(raw, RawFilter(task[n].record),
                                      task[n].record) ]_vars

\* C20 happens: in the first collection a run has failed at a later step,
\* after an upsert of its own completed, and what it wrote is in the store.
C20_Witness ==
    \E n \in AdapterNames :
        /\ batch = 1
        /\ task[n].pc = "failed"
        /\ task[n].fault \in {"extract", "store", "close"}
        /\ "upsert" \in task[n].did
        /\ \E d \in raw : d.source_name = n

(***************************************************************************)
(* Claims about the store's keys and the records' identity.                *)
(***************************************************************************)
\* At most one document of the collection agrees with another on the fields.
UniqueOn(coll, fields) ==
    \A d, e \in coll :
        (\A f \in fields : d[f] = e[f]) => d = e

\* C21: in every reachable state of the store, whatever the sequence and the
\* interleaving of the upserts, there is at most one raw document per
\* (source_name, source_id) and at most one canonical document per record_id.
C21_NaturalKeysUnique ==
    /\ UniqueOn(raw, {"source_name", "source_id"})
    /\ UniqueOn(canonical, {"record_id"})

\* C21 happens: two upsert_raw calls that overlapped on one natural key with
\* different data have both written, and the key has one document.
C21_Witness ==
    /\ call["c1"].pc = "returned" /\ call["c1"].op = "upsert_raw"
    /\ call["c2"].pc = "returned" /\ call["c2"].op = "upsert_raw"
    /\ call["c1"].overlap /\ call["c2"].overlap
    /\ call["c1"].result /\ call["c2"].result
    /\ SameKey(call["c1"].rec, call["c2"].rec)
    /\ call["c1"].rec.content_hash # call["c2"].rec.content_hash
    /\ Cardinality({ d \in raw : Matches(d, RawFilter(call["c1"].rec)) }) = 1

\* The data a mapping of mappings holds, whatever the insertion orders.
StructuredItems(e) == { <<it[1], Items(it[2])>> : it \in Items(e) }

\* C22: content_hash depends only on the data held in `extracted`: two
\* RawRecords whose mappings hold the same data have the same content_hash
\* whatever the insertion order of the entries, the order of the entries
\* inside nested mapping values included.
C22_HashIgnoresInsertionOrder ==
    \A a, b \in Slots :
        (/\ built[a].rec # None /\ built[b].rec # None
         /\ StructuredItems(built[a].extracted)
               = StructuredItems(built[b].extracted))
            => built[a].rec.content_hash = built[b].rec.content_hash

Keys(e) == { it[1] : it \in Items(e) }

Get(e, k) == (CHOOSE it \in Items(e) : it[1] = k)[2]

\* The mappings have the same keys and differ in the value of exactly one.
OneValueChanged(e1, e2) ==
    /\ Keys(e1) = Keys(e2)
    /\ Cardinality({ k \in Keys(e1) : Get(e1, k) # Get(e2, k) }) = 1

\* Two consecutive, completed upsert_raw calls of the sequential caller on one
\* natural key, the second record differing from the first in one value.
ThenOneValueChanged ==
    /\ call["c1"].pc = "returned" /\ call["c1"].op = "upsert_raw"
    /\ prev["c1"].pc = "returned" /\ prev["c1"].op = "upsert_raw"
    /\ SameKey(prev["c1"].rec, call["c1"].rec)
    /\ OneValueChanged(prev["c1"].rec.extracted, call["c1"].rec.extracted)

\* C23: changing the value of one key of `extracted` changes content_hash,
\* and an upsert_raw of the changed record after the original one, under the
\* same (source_name, source_id), reports written and replaces the stored
\* document.
C23_ChangedValueIsWritten ==
    ThenOneValueChanged =>
        LET first  == prev["c1"].rec
            second == call["c1"].rec
        IN  /\ first.content_hash # second.content_hash
            /\ call["c1"].before # None
            /\ call["c1"].before.content_hash = first.content_hash
            /\ call["c1"].result = TRUE
            /\ { d \in raw : Matches(d, RawFilter(second)) } = {second}

\* C23 happens: the original was written, then the record with the changed
\* title.
C23_Witness ==
    /\ ThenOneValueChanged
    /\ prev["c1"].result = TRUE
    /\ call["c1"].result = TRUE
    /\ FindOne(raw, RawFilter(call["c1"].rec)).extracted = call["c1"].rec.extracted

\* The CanonicalRecords the sequential caller has handed to upsert_canonical
\* in its previous and its present call.
CanonicalRecords ==
    { q.rec : q \in { f \in {prev["c1"], call["c1"]} :
                          f.op = "upsert_canonical" } }

SameSource(r1, r2) ==
    r1.source_name = r2.source_name /\ r1.source_id = r2.source_id

\* C24: record_id is a function of (source_name, source_id) only: two
\* CanonicalRecords that share (source_name, source_id) have the same
\* record_id whatever their content, so re-normalized source data is stored
\* by upsert_canonical under the key it had: the source's one document.
C24_RecordIdStable ==
    /\ \A r1, r2 \in CanonicalRecords :
          SameSource(r1, r2) => r1.record_id = r2.record_id
    /\ \A r \in CanonicalRecords : \A d \in canonical :
          SameSource(r, d) => d.record_id = r.record_id
    /\ \A d, e \in canonical : SameSource(d, e) => d = e

\* C24 happens: a record and then its re-normalized, changed successor were
\* both written, under one record_id, and the document is at version 2.
C24_Witness ==
    /\ call["c1"].pc = "returned" /\ call["c1"].op = "upsert_canonical"
    /\ prev["c1"].pc = "returned" /\ prev["c1"].op = "upsert_canonical"
    /\ SameSource(prev["c1"].rec, call["c1"].rec)
    /\ prev["c1"].rec.title # call["c1"].rec.title
    /\ prev["c1"].rec.content_hash # call["c1"].rec.content_hash
    /\ prev["c1"].result /\ call["c1"].result
    /\ FindOne(canonical, CanonicalFilter(prev["c1"].rec)).version = 2

(***************************************************************************)
(* Claims about the store's lifecycle.                                     *)
(***************************************************************************)
\* C25: no upsert is accepted before connect() has ensured the uniqueness
\* constraints: while connect() has not been called, is in progress or has
\* failed, no upsert_raw or upsert_canonical has returned a result and
\* neither collection has been written.
C25_NoUpsertBeforeIndexes ==
    conn.pc # "connected" =>
        /\ raw = {} /\ canonical = {}
        /\ \A c \in Clients : call[c].pc \notin {"write", "returned"}

(***************************************************************************)
(* Claims about a run's stages.                                            *)
(***************************************************************************)
\* adapter.login(page) of run n raises in this step.
LoginRaises(n) == task[n].pc = "login" /\ task'[n].pc = "failed"

\* C26: if login raises during AUTHENTICATING, that run ends FAILED without
\* extracting or persisting any record and failures is incremented by
\* exactly one; no other run's state, slot or records are affected.
C26_LoginFailureIsLocal ==
    [][ \A n \in AdapterNames :
          LoginRaises(n) =>
              /\ task'[n].fault = "login"
              /\ task'[n].did \cap {"extract", "upsert"} = {}
              /\ metrics' = [ metrics EXCEPT !.failures = @ + 1 ]
              /\ upserts' = upserts
              /\ raw' = raw
              /\ sem_value' = sem_value + 1
              /\ domain_limiters' = domain_limiters
              /\ \A m \in AdapterNames \ {n} : task'[m] = task[m] ]_vars

\* C26 happens: a run has failed at login with nothing extracted, while
\* another run, under way at that time or later, has persisted its records
\* and is DONE.
C26_Witness ==
    \E n \in AdapterNames :
        /\ task[n].pc = "failed"
        /\ task[n].fault = "login"
        /\ task[n].did \cap {"extract", "upsert"} = {}
        /\ metrics.failures = 1
        /\ \E m \in AdapterNames \ {n} :
              task[m].pc = "done" /\ "upsert" \in task[m].did

(***************************************************************************)
(* Claims about the adapter registry.                                      *)
(***************************************************************************)
\* The positions of the register_adapter calls made for classes of that name.
RegisteredAs(regs, name) ==
    { i \in 1..Len(regs) : MetaName(regs[i]) = name }

\* The class last registered under the name, KeyError when there is none.
LastRegistered(regs, name) ==
    IF RegisteredAs(regs, name) = {} THEN "KeyError"
    ELSE regs[CHOOSE i \in RegisteredAs(regs, name) :
                  \A j \in RegisteredAs(regs, name) : j <= i]

\* C27: after any sequence of register_adapter calls, get_adapter(name)
\* returns exactly the class last registered under that name, and raises
\* KeyError for a name that was never registered, leaving the registry
\* unchanged.
C27_GetAdapterReturnsLastRegistered ==
    [][ /\ \A name \in LookupNames \cup { MetaName(cls) : cls \in AdapterClasses } :
              IF name \in DOMAIN registry'
              THEN registry'[name] = LastRegistered(registered', name)
              ELSE LastRegistered(registered', name) = "KeyError"
        /\ looked' # looked =>
              /\ looked'.outcome = LastRegistered(registered, looked'.name)
              /\ registry' = registry
              /\ registered' = registered ]_vars

\* C27 happens: two classes were registered under one name and get_adapter
\* has returned the later one.
C27_Witness ==
    /\ looked.name = "dummy"
    /\ \E i, j \in RegisteredAs(registered, "dummy") :
          i < j /\ registered[i] # registered[j]
    /\ looked.outcome = registered[Len(registered)]
    /\ MetaName(registered[Len(registered)]) = "dummy"
    /\ Len(registered) = MaxRegistrations

\* Run n is in its `async for record in adapter.extract(page)` loop
\* (orchestrator.py 120-126); `page` is the run's local of line 110.
Extracting(n) == task[n].pc \in {"extract", "limiter", "find", "update"}

\* C28: for an adapter whose meta.requires_browser is False the orchestrator
\* passes page=None to extract: the run hands the adapter no browser page.
C28_NoPageWithoutBrowser ==
    \A n \in AdapterNames :
        (~RequiresBrowser(n) /\ Extracting(n)) => task[n].page = NoneStr

(***************************************************************************)
(* Claims about concurrent callers of the store.                           *)
(***************************************************************************)
\* The version stored under a record_id, 0 when there is no document.
StoredVersion(coll, id) ==
    LET d == FindOne(coll, [ record_id |-> id ])
    IN  IF d = None THEN 0 ELSE d.version

\* No upsert_canonical call is under way.
Quiescent ==
    \A c \in Clients : call[c].op = "upsert_canonical" => call[c].pc = "returned"

\* C29: under concurrent upsert_canonical calls on one record_id the stored
\* version stays monotonic and gap-free: no step lowers it, and once the
\* calls have returned it equals the number of calls that reported written.
C29_VersionMonotonicGapFree ==
    [][ \A id \in StoreRecordIds :
          /\ StoredVersion(canonical', id) >= StoredVersion(canonical, id)
          /\ Quiescent' => StoredVersion(canonical', id) = cwrites'[id] ]_vars

(***************************************************************************)
(* Claims about the checkpoint a run leaves behind.                        *)
(***************************************************************************)
\* The documents of source n that were fetched in the present collection.
WrittenNow(n) ==
    { d \in raw : /\ d.source_name = n
                  /\ \E c \in 1..Len(Feed(n)) : d.fetched_at = UtcNow(batch, c) }

\* C30: after a run that ends DONE having persisted at least one new record
\* from a source that yields newest-first, the checkpoint the store resolves
\* for the next run (get_latest_source_id) is the newest id that run
\* yielded, the first one.
C30_CheckpointIsNewest ==
    \A n \in AdapterNames :
        (task[n].pc = "done" /\ WrittenNow(n) # {}) =>
            LatestSourceIds(raw, n) = { Feed(n)[1] }

(***************************************************************************)
(* The orchestrator under the event loop's scheduling (orchestrator.py     *)
(* 72-90, 94-133): every awaited call returns or raises, so a coroutine    *)
(* that can take its next step takes it.                                   *)
(***************************************************************************)
\* The next step of _run_adapter(n), whichever line it stands at.
RunStep(n) ==
    \/ Start(n)
    \/ Admit(n)
    \/ ResolveCheckpoint(n)
    \/ NewContext(n)
    \/ Navigate(n)
    \/ Login(n)
    \/ Extract(n)
    \/ AcquireToken(n)
    \/ UpsertFind(n)
    \/ UpsertUpdate(n)
    \/ CloseContext(n)

\* asyncio runs every task that is ready: a _run_adapter that can step does,
\* and run() resumes once its gather is done.  Nothing obliges anyone to
\* call run() again.
Fairness ==
    /\ WF_vars(RunReturn)
    /\ \A n \in RunNames : WF_vars(RunStep(n))

\* `collect -a X -a Y` with one slot, so that a run waits at the gate; any
\* retry budget and either rate.
InitLive ==
    /\ StoreInit
    /\ UnitIdle
    /\ adapter_names \in { names \in SUBSET AdapterNames : Cardinality(names) = 2 }
    /\ settings \in [ max_concurrency : {1},
                      max_retries : 0..MaxRetriesCfg,
                      rate_limit_per_domain : Rates ]
    /\ run_pc = "idle"
    /\ batch = 0
    /\ sem_value = SemaphoreInit(settings)
    /\ domain_limiters = {}
    /\ metrics = CollectorMetrics
    /\ task = [ n \in RunNames |-> NoTask ]
    /\ upserts = NoUpserts

SpecLive == InitLive /\ [][Next]_vars /\ Fairness

(***************************************************************************)
(* Claims about termination.                                               *)
(***************************************************************************)
\* The run of n is under way.
Running(n) == task[n].pc \notin TerminalPcs \cup {"none"}

\* C31: every call returning or raising and every source being finite, every
\* run eventually reaches DONE or FAILED, every run waiting for a slot is
\* eventually admitted by the gate, and run() eventually returns.
C31_RunsTerminate ==
    /\ \A n \in RunNames : Running(n) ~> (task[n].pc \in TerminalPcs)
    /\ \A n \in RunNames :
          (task[n].pc = "acquire") ~> (task[n].pc \in HoldingPcs \cup TerminalPcs)
    /\ (run_pc = "gather") ~> (run_pc = "returned")

\* run() has returned, its runs having shared fewer slots than there are
\* runs, some ended DONE and some FAILED, and every slot is back.
C31_Witness ==
    /\ run_pc = "returned"
    /\ settings.max_concurrency < Cardinality(adapter_names)
    /\ \A n \in adapter_names : task[n].pc \in TerminalPcs
    /\ \E n \in adapter_names : task[n].pc = "done"
    /\ \E n \in adapter_names : task[n].pc = "failed"
    /\ sem_value = settings.max_concurrency

(***************************************************************************)
(* _navigate_with_retry on its own (orchestrator.py 137-145): page.goto    *)
(* under tenacity, any retry_backoff_base and any max_retries; times are   *)
(* in tenths of a second.                                                  *)
(***************************************************************************)
\* wait_exponential(..., min=1, max=30), in seconds.
WaitMin == 1

WaitMax == 30

\* settings.retry_backoff_base values tried (the setting is >= 1.0), in
\* tenths of a second.
BackoffBases == {10, 15, 20, 40, 75, 300, 310, 450}

Min(a, b) == IF a <= b THEN a ELSE b

\* A mis-step: the exponent is the attempt number itself.
WaitExponentialDoubledAtOnce(multiplier, min, max, attempt_number) ==
    Max(Max(0, min), Min(multiplier * 2^attempt_number, max))

\* tenacity's wait_exponential(multiplier, min, max), exp_base = 2, called
\* with the number of the attempt that has just failed.
WaitExponential(multiplier, min, max, attempt_number) ==
    Max(Max(0, min), Min(multiplier * 2^(attempt_number - 1), max))

unitsButRetrying ==
    <<gen, limiters, bucket, runner, persisted, built, conn, registry,
      registered, looked, keyed>>

\* page.goto raises in the present attempt: tenacity stops and the error
\* reaches the caller (reraise=True), or it sleeps the wait and calls again.
GotoRaises ==
    /\ retrying.pc = "calling"
    /\ IF StopAfterAttempt(retrying.attempt_number, retrying.max_retries)
       THEN retrying' = [ retrying EXCEPT !.pc = "raised" ]
       ELSE retrying' =
              [ retrying EXCEPT
                  !.attempt_number = @ + 1,
                  !.waits = Append(@, WaitExponential(retrying.retry_backoff_base,
                                                      10 * WaitMin, 10 * WaitMax,
                                                      retrying.attempt_number)) ]
    /\ UNCHANGED unitsButRetrying
    /\ UNCHANGED storeVars
    /\ UNCHANGED orchVars

\* page.goto returns, and _navigate_with_retry with it.
GotoReturns ==
    /\ retrying.pc = "calling"
    /\ retrying' = [ retrying EXCEPT !.pc = "returned" ]
    /\ UNCHANGED unitsButRetrying
    /\ UNCHANGED storeVars
    /\ UNCHANGED orchVars

InitBackoff ==
    /\ StoreInit
    /\ OrchInit
    /\ settings = [ max_concurrency |-> MaxConcurrencyCfg,
                    max_retries |-> MaxRetriesCfg,
                    rate_limit_per_domain |-> 10 * RateLimitPerDomain ]
    /\ gen = NoGen
    /\ limiters = NoLimiters
    /\ bucket = << >>
    /\ runner = NoRunners
    /\ persisted = NothingPersisted
    /\ built = NothingBuilt
    /\ conn = Connected
    /\ registry = EmptyRegistry
    /\ registered = << >>
    /\ looked = NoLookup
    /\ retrying \in [ pc : {"calling"}, retry_backoff_base : BackoffBases,
                       max_retries : 0..MaxAttempts, attempt_number : {1},
                       waits : { << >> } ]
    /\ keyed = NothingKeyed

NextBackoff ==
    \/ GotoRaises
    \/ GotoReturns

SpecBackoff == InitBackoff /\ [][NextBackoff]_vars

(***************************************************************************)
(* Claims about the waits between navigation attempts.                     *)
(***************************************************************************)
\* base * 2^(k-1), capped at 30 seconds and never below 1 second.
BackoffWait(base, k) ==
    LET doubled == base * 2^(k - 1)
    IN  IF doubled > 10 * WaitMax THEN 10 * WaitMax
        ELSE IF doubled < 10 * WaitMin THEN 10 * WaitMin
        ELSE doubled

\* The waits follow the doubling rule and never decrease.
WaitsDoubleUnderCap ==
    /\ \A k \in 1..Len(retrying.waits) :
          retrying.waits[k] = BackoffWait(retrying.retry_backoff_base, k)
    /\ \A k \in 1..(Len(retrying.waits) - 1) :
          retrying.waits[k] <= retrying.waits[k + 1]

\* C32 as stated: the wait between failed navigation attempt k and attempt
\* k+1 is retry_backoff_base * 2^(k-1) seconds, capped at 30 seconds and never
\* below 1 second; the first wait equals retry_backoff_base and the waits
\* never decrease from one attempt to the next.
C32_FirstWaitIsBase ==
    /\ WaitsDoubleUnderCap
    /\ Len(retrying.waits) >= 1 =>
          retrying.waits[1] = retrying.retry_backoff_base

\* C32, amended: the wait between failed navigation attempt k and attempt
\* k+1 is retry_backoff_base * 2^(k-1) seconds, capped at 30 seconds and never
\* below 1 second; the first wait equals retry_backoff_base or, when that is
\* more than 30 seconds, 30 seconds, and the waits never decrease from one
\* attempt to the next.
C32_FirstWaitIsCappedBase ==
    /\ WaitsDoubleUnderCap
    /\ Len(retrying.waits) >= 1 =>
          retrying.waits[1] = Min(retrying.retry_backoff_base, 10 * WaitMax)

\* A call with a base above the cap has waited twice, and has given up.
C32_Witness ==
    /\ retrying.pc = "raised"
    /\ retrying.retry_backoff_base > 10 * WaitMax
    /\ Len(retrying.waits) >= 2

(***************************************************************************)
(* Claims about the order in which a run persists its records.             *)
(***************************************************************************)
\* Run n pulls a record from its source in this step.
Pulls(n) == task'[n].cursor > task[n].cursor

\* The upsert_raw call of run n returns in this step.
UpsertReturns(n) ==
    /\ task[n].pc \in {"find", "update"}
    /\ task'[n].pc = "extract"

\* C33: within one run, records are persisted in exactly the order the
\* source yields them: the record pulled is the next of the source, it is
\* pulled only when the upsert of the one before has completed, and the
\* upsert that completes is that of the record pulled last.
C33_PersistedInYieldOrder ==
    [][ \A n \in AdapterNames :
          /\ Pulls(n) =>
                /\ task[n].record = None
                /\ task'[n].cursor = task[n].cursor + 1
                /\ task'[n].record.source_id = Feed(n)[task[n].cursor]
                /\ task[n].cursor > 1 =>
                      /\ "upsert" \in task[n].did
                      /\ task[n].pc = "extract"
          /\ UpsertReturns(n) =>
                /\ task[n].record.source_id = Feed(n)[task[n].cursor - 1]
                /\ task'[n].cursor = task[n].cursor
                /\ task'[n].record = None
          /\ \A d \in raw' \ raw :
                d.source_name = n =>
                   /\ task[n].pc = "update"
                   /\ d.source_id = Feed(n)[task[n].cursor - 1] ]_vars

\* A run has persisted both records of its source and is done.
C33_Witness ==
    /\ task["nyc_procurement"].pc = "done"
    /\ \A i \in 1..2 :
          \E d \in raw : /\ d.source_name = "nyc_procurement"
                         /\ d.source_id = Feed("nyc_procurement")[i]
                         /\ d.fetched_at = UtcNow(batch, i)

(***************************************************************************)
(* Claims about what the retry policy covers.                              *)
(***************************************************************************)
\* The lines of a run after its navigation: login, the source, the store.
AfterNavigation == {"login", "extract", "limiter", "find", "update", "close"}

\* Run n makes a call again: it steps and stands where it stood.
CallsAgain(n) == task'[n] # task[n] /\ task'[n].pc = task[n].pc

\* C36: only the initial navigation is retried: within one run, login is
\* invoked at most once and each item is produced and upserted at most once;
\* a failure of login, of producing an item or of persisting it ends the run
\* FAILED and is never retried.
C36_OnlyNavigationRetried ==
    [][ batch' = batch =>
          \A n \in AdapterNames :
             /\ (task[n].pc \notin TerminalPcs /\ CallsAgain(n)) =>
                   /\ task[n].pc = "navigate"
                   /\ task'[n].attempts = task[n].attempts + 1
             /\ task[n].pc \in TerminalPcs => task'[n].pc = task[n].pc
             /\ (task'[n].pc = "login" /\ task[n].pc # "login") =>
                   /\ task[n].pc = "navigate"
                   /\ "login" \notin task[n].did
             /\ (task[n].pc \in AfterNavigation /\ task'[n] # task[n]) =>
                   /\ task'[n].pc \in (AfterNavigation \ {"login"}) \cup TerminalPcs
                   /\ task'[n].pc \notin TerminalPcs =>
                         /\ task'[n].cursor >= task[n].cursor
                         /\ task'[n].attempts = 0
             /\ ~(task'[n].pc \in {"find", "update"} /\ task[n].pc = "extract")
             /\ (task'[n].pc = "find" /\ task[n].pc # "find") =>
                   /\ task[n].pc = "limiter"
                   /\ task[n].record.source_id = Feed(n)[task[n].cursor - 1] ]_vars

\* With a retry budget of two attempts, one run has failed in login, and
\* another in the store after it had persisted a record.
C36_Witness ==
    /\ settings.max_retries = MaxRetriesCfg
    /\ \E n \in AdapterNames :
          task[n].pc = "failed" /\ task[n].fault = "login"
    /\ \E n \in AdapterNames :
          /\ task[n].pc = "failed" /\ task[n].fault = "store"
          /\ "upsert" \in task[n].did

(***************************************************************************)
(* RawRecords that reach upsert_raw by other ways than an adapter's        *)
(* extract(): constructed with a content_hash (schemas.py 49-57), rebuilt  *)
(* from a stored document as the pipeline rebuilds them (ml/pipeline.py    *)
(* 40-42), or changed after construction.                                  *)
(***************************************************************************)
\* The mappings of one entry: a title, or another title.
TitlePayloads == { e \in Payloads : Len(e) = 1 }

\* content_hash values a caller supplies: none, or the digest of a mapping.
SuppliedHashes == {EmptyStr} \cup { ContentHash(e) : e \in TitlePayloads }

unitsButBuilt ==
    <<gen, limiters, bucket, runner, persisted, conn, registry, registered,
      looked, retrying, keyed>>

\* RawRecord(source_id=..., extracted=..., content_hash=h): the validator
\* computes the digest only `if not self.content_hash`.
ConstructWith(sl, h) ==
    /\ built[sl].rec = None
    /\ built' = [ built EXCEPT ![sl].rec =
                    RawRecord("123", "test_source", 1, built[sl].extracted, h) ]
    /\ UNCHANGED unitsButBuilt
    /\ UNCHANGED storeVars
    /\ UNCHANGED orchVars

\* `RawRecord(**{k: v for k, v in doc.items() if k != "_id"})` for a stored
\* document: its content_hash comes along as the caller's.
Rebuild(sl) ==
    /\ built[sl].rec = None
    /\ \E doc \in raw :
          built' = [ built EXCEPT ![sl].rec =
                       RawRecord(doc.source_id, doc.source_name, doc.fetched_at,
                                 doc.extracted, doc.content_hash) ]
    /\ UNCHANGED unitsButBuilt
    /\ UNCHANGED storeVars
    /\ UNCHANGED orchVars

\* `record.extracted = e` (or an update of the dict in place): the model
\* does not validate assignments, the validator does not run again.
SetExtracted(sl, e) ==
    /\ built[sl].rec # None
    /\ built[sl].rec.extracted # e
    /\ built' = [ built EXCEPT ![sl].rec.extracted = e ]
    /\ UNCHANGED unitsButBuilt
    /\ UNCHANGED storeVars
    /\ UNCHANGED orchVars

\* `await store.upsert_raw(record)` with the instance of slot sl.
BeginUpsertRawOf(c, sl) ==
    /\ call[c].pc \in {"idle", "returned"}
    /\ ncalls < MaxCalls
    /\ built[sl].rec # None
    /\ call' = Begun(c, [ IdleCall EXCEPT !.pc = "find", !.op = "upsert_raw",
                                          !.rec = built[sl].rec ])
    /\ prev' = [ prev EXCEPT ![c] = call[c] ]
    /\ now' = now + 1
    /\ ncalls' = ncalls + 1
    /\ UNCHANGED <<raw, canonical, cwrites>>
    /\ UNCHANGED orchVars
    /\ UNCHANGED unitVars

InitRebuild ==
    /\ StoreInit
    /\ OrchInit
    /\ settings = [ max_concurrency |-> MaxConcurrencyCfg,
                    max_retries |-> MaxRetriesCfg,
                    rate_limit_per_domain |-> 10 * RateLimitPerDomain ]
    /\ gen = NoGen
    /\ limiters = NoLimiters
    /\ bucket = << >>
    /\ runner = NoRunners
    /\ persisted = NothingPersisted
    /\ \E e \in [ Slots -> TitlePayloads ] :
          built = [ sl \in Slots |-> [ extracted |-> e[sl], rec |-> None ] ]
    /\ conn = Connected
    /\ registry = EmptyRegistry
    /\ registered = << >>
    /\ looked = NoLookup
    /\ retrying = NotRetrying
    /\ keyed = NothingKeyed

NextRebuild ==
    \/ \E sl \in Slots, h \in SuppliedHashes : ConstructWith(sl, h)
    \/ \E sl \in Slots : Rebuild(sl)
    \/ \E sl \in Slots, e \in TitlePayloads : SetExtracted(sl, e)
    \/ \E sl \in Slots : BeginUpsertRawOf("c1", sl)
    \/ FindRaw("c1")
    \/ WriteRaw("c1")

SpecRebuild == InitRebuild /\ [][NextRebuild]_vars

(***************************************************************************)
(* Claims about the content_hash of the records handed to the store.       *)
(***************************************************************************)
\* C34: every RawRecord handed to upsert_raw has content_hash equal to the
\* digest of its extracted mapping, also when the record was constructed
\* with a caller-supplied content_hash or when extracted was changed after
\* construction.
C34_HandedHashIsDigest ==
    \A c \in Clients :
        (call[c].op = "upsert_raw" /\ call[c].rec # None) =>
            call[c].rec.content_hash = ContentHash(call[c].rec.extracted)

(***************************************************************************)
(* upsert_canonical by one caller (mongo.py 103-118) for records of any    *)
(* (source_name, source_id) pair, the two fields being any str             *)
(* (schemas.py 63-65).                                                     *)
(***************************************************************************)
\* (source_name, source_id) pairs, with and without ':' in the fields.
KeyPairs == { <<"a:b", "c">>, <<"a", "b:c">>, <<"a", "b">>, <<"dummy", "X1">> }

unitsButKeyed ==
    <<gen, limiters, bucket, runner, persisted, built, conn, registry,
      registered, looked, retrying>>

\* raw_to_canonical for a raw record of the pair k, then
\* `await store.upsert_canonical(record)`: find_one by record_id, skip when
\* the content_hash is the stored one, else update_one with upsert.
UpsertCanonicalOf(k, e) ==
    /\ keyed.calls < MaxKeyed
    /\ LET rec      == raw_to_canonical(RawRecord(k[2], k[1], 1, e, EmptyStr), 1)
           found    == FindOne(keyed.canonical, CanonicalFilter(rec))
           existing == Project(found, {"content_hash", "version"})
           doc      == [ rec EXCEPT !.version = NewVersion(existing, rec),
                                    !.updated_at = 1 ]
       IN  keyed' =
             [ canonical |-> IF Unchanged(existing, rec) THEN keyed.canonical
                             ELSE UpdateOne(keyed.canonical,
                                            CanonicalFilter(rec), doc),
               upserted  |-> keyed.upserted \cup {k},
               calls     |-> keyed.calls + 1 ]
    /\ UNCHANGED unitsButKeyed
    /\ UNCHANGED storeVars
    /\ UNCHANGED orchVars

InitKeyed ==
    /\ StoreInit
    /\ OrchInit
    /\ settings = [ max_concurrency |-> MaxConcurrencyCfg,
                    max_retries |-> MaxRetriesCfg,
                    rate_limit_per_domain |-> 10 * RateLimitPerDomain ]
    /\ UnitIdle

NextKeyed == \E k \in KeyPairs, e \in Payloads : UpsertCanonicalOf(k, e)

SpecKeyed == InitKeyed /\ [][NextKeyed]_vars

(***************************************************************************)
(* Claims about the canonical key of a (source_name, source_id) pair.      *)
(***************************************************************************)
\* The string compute_record_id digests for the pair k.
DigestInput(k) == k[1] \o ":" \o k[2]

\* C35: the input of the record_id digest is injective in the pair: no two
\* different (source_name, source_id) pairs are built into the same string,
\* so records of two different pairs never share a canonical key and never
\* overwrite each other in upsert_canonical.
C35_RecordIdInjective ==
    /\ \A k1, k2 \in keyed.upserted :
          k1 # k2 =>
             /\ DigestInput(k1) # DigestInput(k2)
             /\ RecordId(k1[1], k1[2]) # RecordId(k2[1], k2[2])
    /\ \A k \in keyed.upserted :
          \E d \in keyed.canonical :
             d.source_name = k[1] /\ d.source_id = k[2]

(***************************************************************************)
(* `collect -a <name> -a <other>` with a name that no adapter is           *)
(* registered under (cli.py 26-39, orchestrator.py 51-61).                 *)
(***************************************************************************)
\* Orchestrator(store, adapter_names=...) with the unknown name and one
\* registered name, any gate width and any retry budget.
InitNames ==
    /\ StoreInit
    /\ UnitIdle
    /\ adapter_names \in { UnknownNames \cup {n} : n \in AdapterNames }
    /\ settings \in [ max_concurrency : 1..MaxConcurrencyCfg,
                      max_retries : 0..MaxRetriesCfg,
                      rate_limit_per_domain : {10 * RateLimitPerDomain} ]
    /\ run_pc = "idle"
    /\ batch = 0
    /\ sem_value = SemaphoreInit(settings)
    /\ domain_limiters = {}
    /\ metrics = CollectorMetrics
    /\ task = [ n \in RunNames |-> NoTask ]
    /\ upserts = NoUpserts

SpecNames == InitNames /\ [][Next]_vars

(***************************************************************************)
(* Claims about a run for a name that is not registered.                   *)
(***************************************************************************)
\* The run of n leaves the gate in this step.
LeavesGate(n) == task[n].pc = "acquire" /\ task'[n].pc # "acquire"

\* C37: a run for an adapter name that is not registered ends FAILED after
\* acquiring its gate slot, with failures incremented by exactly one and
\* without reading or writing the store or opening a session; its slot is
\* released and the runs for the other names go on as they were.
C37_UnknownAdapterFails ==
    [][ \A n \in adapter_names \ ADAPTER_REGISTRY :
          /\ task'[n].pc \in {"none", "pending", "acquire", "failed"}
          /\ task'[n].session = "none"
          /\ task'[n].checkpoint = NoneStr
          /\ task'[n].did = {}
          /\ LeavesGate(n) =>
                /\ sem_value > 0
                /\ task'[n].pc = "failed"
                /\ task'[n].fault = "get_adapter"
                /\ task'[n].acquires = 1
                /\ metrics' = [ metrics EXCEPT !.failures = @ + 1 ]
                /\ sem_value' = sem_value
                /\ raw' = raw
                /\ upserts' = upserts
                /\ domain_limiters' = domain_limiters
                /\ \A m \in adapter_names \ {n} : task'[m] = task[m] ]_vars

\* The run of the unknown name has failed, the failure is the only one
\* counted, the run of the other name is done with a record persisted, and
\* every slot is back.
C37_Witness ==
    /\ \E n \in adapter_names \ ADAPTER_REGISTRY :
          task[n].pc = "failed" /\ task[n].fault = "get_adapter"
    /\ metrics.failures = 1
    /\ \E m \in adapter_names \cap ADAPTER_REGISTRY :
          task[m].pc = "done" /\ "upsert" \in task[m].did
    /\ metrics.items_collected >= 1
    /\ sem_value = settings.max_concurrency
====
